---- MODULE Spec2Model ----
(***************************************************************************)
(* Model of the cycle-based budget aggregation of src/YAET.js: the         *)
(* frequency normaliser (calculateCycleBudget), the cycle window           *)
(* (startOfCycle), the ledger view and summary memos of App, the           *)
(* cycle-to-cycle chart (ExpenseCycleBarChart.cycleData), and the store    *)
(* handlers and snapshot listeners that feed them.                         *)
(*                                                                         *)
(* Numbers.  A JavaScript number that is a money amount is an integer      *)
(* counting sixteenths of a currency unit (Scale), so that the factors     *)
(* 30.4375 = 487/16 and 1/2 are exact; amounts entered are whole units.    *)
(* NaN is the reserved code NaN, and every arithmetic step and comparison  *)
(* goes through the JS* operators, which treat it as IEEE-754 does.        *)
(*                                                                         *)
(* Dates.  A Date is an integer counting the ticks since 1970-01-01 00:00  *)
(* local time, TicksPerDay ticks to the day: tick 0 of a day is midnight,  *)
(* the other ticks are later instants of that day.  The Date constructor   *)
(* and setMonth normalise out-of-range months and days as ECMAScript does  *)
(* (MakeDay): month -1 is December of the year before, day 31 of a 30-day  *)
(* month is the 1st of the next.                                           *)
(*                                                                         *)
(* Percentages.  A percentage is the fraction [num, den] (den > 0) it is   *)
(* the quotient of, so that no rounding enters; num is NaN for NaN.        *)
(*                                                                         *)
(* Strings.  The text of a category name or of a source is the sequence    *)
(* of its UTF-16 code units (Chars gives those of an ASCII text).          *)
(* Document ids, type tags, frequency codes and labels are never looked    *)
(* into and stay strings.                                                  *)
(*                                                                         *)
(* Values.  What a property of the two accumulator objects of the summary  *)
(* and of the Expense Sources card holds is a tagged value: Num(n),        *)
(* Str(code units), and, read from the prototype the objects inherit,      *)
(* Fn(name), ObjectPrototype or Undefined.                                 *)
(***************************************************************************)
EXTENDS Integers, Sequences, FiniteSets, TLC

-----------------------------------------------------------------------------
(* JavaScript numbers *)

Scale == 16

NaN == -1073741824

AVG_DAYS_PER_MONTH == 487

IsNaN(x) == x = NaN

JSAdd(a, b) == IF IsNaN(a) \/ IsNaN(b) THEN NaN ELSE a + b

JSSub(a, b) == IF IsNaN(a) \/ IsNaN(b) THEN NaN ELSE a - b

JSGt(a, b) == ~IsNaN(a) /\ ~IsNaN(b) /\ a > b

JSLe(a, b) == ~IsNaN(a) /\ ~IsNaN(b) /\ a <= b

\* x || y on numbers: 0 and NaN are falsy.
OrElse(x, y) == IF IsNaN(x) \/ x = 0 THEN y ELSE x

\* Whether record r carries field f (an absent field reads as undefined).
Has(r, f) == f \in DOMAIN r

\* parseFloat of a field that may be absent: undefined parses to NaN, a
\* number (or NaN) to itself.
parseFloat(r, f) == IF Has(r, f) THEN r[f] ELSE NaN

-----------------------------------------------------------------------------
(* JavaScript strings: the text of a name or a source is the sequence of its
   UTF-16 code units *)

\* The printable characters of ASCII in the order of their codes: those
\* from the space (32) to the underscore (95), and those from a (97) to the
\* tilde (126).
AsciiTo95 ==
    " !\"#$%&'()*+,-./0123456789:;<=>?@ABCDEFGHIJKLMNOPQRSTUVWXYZ[\\]^_"

AsciiFrom97 == "abcdefghijklmnopqrstuvwxyz{|}~"

\* The code unit of the printable ASCII character c.
CodeUnit(c) ==
    IF \E i \in 1..Len(AsciiTo95) : SubSeq(AsciiTo95, i, i) = c
    THEN 31 + CHOOSE i \in 1..Len(AsciiTo95) : SubSeq(AsciiTo95, i, i) = c
    ELSE 96 + CHOOSE i \in 1..Len(AsciiFrom97) : SubSeq(AsciiFrom97, i, i) = c

\* The code units of a text of printable ASCII characters.
Chars(s) == [i \in 1..Len(s) |-> CodeUnit(SubSeq(s, i, i))]

\* The code units String.prototype.trim removes, WhiteSpace and
\* LineTerminator of ECMAScript: U+0009 (tab), U+000A (line feed), U+000B
\* (vertical tab), U+000C (form feed), U+000D (carriage return), U+0020
\* (space), U+00A0 (no-break space), U+1680 (ogham space mark), U+2000 to
\* U+200A (en quad to hair space), U+2028 (line separator), U+2029
\* (paragraph separator), U+202F (narrow no-break space), U+205F (medium
\* mathematical space), U+3000 (ideographic space) and U+FEFF (zero-width
\* no-break space).
WhiteSpace ==
    {9, 10, 11, 12, 13, 32, 160, 5760} \cup (8192..8202)
    \cup {8232, 8233, 8239, 8287, 12288, 65279}

RECURSIVE trimStart(_)
trimStart(s) ==
    IF Len(s) > 0 /\ s[1] \in WhiteSpace
    THEN trimStart(SubSeq(s, 2, Len(s))) ELSE s

RECURSIVE trimEnd(_)
trimEnd(s) ==
    IF Len(s) > 0 /\ s[Len(s)] \in WhiteSpace
    THEN trimEnd(SubSeq(s, 1, Len(s) - 1)) ELSE s

\* String.prototype.trim
trim(s) == trimEnd(trimStart(s))

\* The decimal digits of a natural number.
RECURSIVE DigitsOf(_)
DigitsOf(n) ==
    IF n < 10 THEN << 48 + n >>
    ELSE DigitsOf(n \div 10) \o << 48 + (n % 10) >>

\* A text of digits without the zeros at its end.
RECURSIVE WithoutZeros(_)
WithoutZeros(digits) ==
    IF Len(digits) > 0 /\ digits[Len(digits)] = 48
    THEN WithoutZeros(SubSeq(digits, 1, Len(digits) - 1)) ELSE digits

\* The decimals of f / Scale for f from 1 to Scale - 1: four digits, the
\* zeros at the end left out.
FractionOf(f) ==
    LET tenThousandths == f * (10000 \div Scale)
    IN  WithoutZeros(<< 48 + (tenThousandths \div 1000),
                        48 + ((tenThousandths \div 100) % 10),
                        48 + ((tenThousandths \div 10) % 10),
                        48 + (tenThousandths % 10) >>)

\* Number::toString of a number x (x / Scale in decimal notation, which is
\* what a number from 0.000001 to 10^21 is written in), of its negative
\* and of NaN.
RECURSIVE NumberToString(_)
NumberToString(x) ==
    IF IsNaN(x) THEN Chars("NaN")
    ELSE IF x < 0 THEN << 45 >> \o NumberToString(-x)
    ELSE DigitsOf(x \div Scale)
         \o (IF x % Scale = 0 THEN << >>
             ELSE << 46 >> \o FractionOf(x % Scale))

-----------------------------------------------------------------------------
(* JavaScript values: what a property of an object created by {} may hold
   or yield *)

Num(n) == [num |-> n]

Str(s) == [str |-> s]

\* A built-in function, by its name.
Fn(name) == [function |-> name]

\* Object.prototype itself.
ObjectPrototype == [object |-> "Object.prototype"]

Undefined == [undefined |-> TRUE]

IsNum(v) == DOMAIN v = {"num"}

IsStr(v) == DOMAIN v = {"str"}

IsFn(v) == DOMAIN v = {"function"}

\* The methods every object inherits from Object.prototype.
PrototypeFunctions ==
    { "constructor", "__defineGetter__", "__defineSetter__", "hasOwnProperty",
      "__lookupGetter__", "__lookupSetter__", "isPrototypeOf",
      "propertyIsEnumerable", "toString", "valueOf", "toLocaleString" }

\* The names of the properties every object inherits: the methods, and the
\* accessor __proto__.
InheritedNames == PrototypeFunctions \cup {"__proto__"}

\* What reading the property name yields on an object without an own
\* property of that name: constructor is the function Object, every other
\* method a function of its own name, __proto__ the prototype.
Inherited(name) ==
    IF name = "constructor" THEN Fn("Object")
    ELSE IF name \in PrototypeFunctions THEN Fn(name)
    ELSE IF name = "__proto__" THEN ObjectPrototype
    ELSE Undefined

\* The inherited names as code units.
InheritedChars == [name \in InheritedNames |-> Chars(name)]

\* What reading the property named by the code units key yields on an
\* object without an own property of that name.
InheritedAt(key) ==
    IF \E name \in InheritedNames : InheritedChars[name] = key
    THEN Inherited(CHOOSE name \in InheritedNames : InheritedChars[name] = key)
    ELSE Undefined

\* Whether v is truthy: 0, NaN, the empty string and undefined are not.
Truthy(v) ==
    IF IsNum(v) THEN ~IsNaN(v.num) /\ v.num # 0
    ELSE IF IsStr(v) THEN v.str # << >>
    ELSE v # Undefined

\* v || w
Either(v, w) == IF Truthy(v) THEN v ELSE w

\* The text a value converts to: a number as Number::toString writes it, a
\* built-in function as its source text, Object.prototype as
\* Object.prototype.toString does.
ToText(v) ==
    IF IsNum(v) THEN NumberToString(v.num)
    ELSE IF IsStr(v) THEN v.str
    ELSE IF IsFn(v)
         THEN Chars("function ") \o Chars(v.function)
              \o Chars("() { [native code] }")
    ELSE IF v = ObjectPrototype THEN Chars("[object Object]")
    ELSE Chars("undefined")

\* The number a value converts to.  A text that begins with f or [ (102,
\* 91), as that of a function or an object does, is no numeric literal: it
\* converts to NaN, and so do the functions and objects themselves and
\* undefined.
ToNumber(v) ==
    CASE IsNum(v) -> v.num
      [] IsStr(v) /\ v.str # << >> /\ v.str[1] \in {102, 91} -> NaN
      [] ~IsNum(v) /\ ~IsStr(v) -> NaN

\* v + w: the sum when each of the two is a number or undefined, else the
\* texts of the two joined.
Plus(v, w) ==
    IF (IsNum(v) \/ v = Undefined) /\ (IsNum(w) \/ w = Undefined)
    THEN Num(JSAdd(ToNumber(v), ToNumber(w)))
    ELSE Str(ToText(v) \o ToText(w))

-----------------------------------------------------------------------------
(* Calendar: the proleptic Gregorian calendar behind Date *)

\* Days from 1970-01-01 to the day of era `era`, year-of-era yoe and
\* day-of-year doy (years run from 1 March).
DaysOfEra(era, yoe, doy) ==
    era * 146097 + (yoe * 365 + yoe \div 4 - yoe \div 100 + doy) - 719468

\* The same of the year yy that runs from 1 March, its month mp (0: March)
\* and day d.
DaysOfMarchYear(yy, mp, d) ==
    DaysOfEra(yy \div 400, yy % 400, (153 * mp + 2) \div 5 + d - 1)

\* Days from 1970-01-01 to year y, month m (1..12), day d.
DaysFromCivil(y, m, d) ==
    DaysOfMarchYear(IF m <= 2 THEN y - 1 ELSE y,
                    IF m > 2 THEN m - 3 ELSE m + 9, d)

\* The civil date of year y0 running from 1 March, month m (1..12), day d.
CivilOfMarchYear(y0, m, d) ==
    [y |-> y0 + (IF m <= 2 THEN 1 ELSE 0), m |-> m, d |-> d]

CivilOfMonth(y0, doy, mp) ==
    CivilOfMarchYear(y0, IF mp < 10 THEN mp + 3 ELSE mp - 9,
                     doy - (153 * mp + 2) \div 5 + 1)

CivilOfDayOfYear(y0, doy) == CivilOfMonth(y0, doy, (5 * doy + 2) \div 153)

CivilOfYearOfEra(era, doe, yoe) ==
    CivilOfDayOfYear(yoe + era * 400,
                     doe - (365 * yoe + yoe \div 4 - yoe \div 100))

CivilOfDayOfEra(era, doe) ==
    CivilOfYearOfEra(era, doe,
        (doe - doe \div 1460 + doe \div 36524 - doe \div 146096) \div 365)

CivilOfShifted(zz) == CivilOfDayOfEra(zz \div 146097, zz % 146097)

\* The civil date [y, m (1..12), d] of day number z.
CivilOfDay(z) == CivilOfShifted(z + 719468)

CivilFromDays(z) == CivilOfDay(z)

\* The instants of a day the model tells apart (tick 0 is midnight).
TicksPerDay == 2

\* ECMAScript MakeDay: the day number of (year, 0-based month, day of month),
\* month and day of any integer value.
MakeDay(year, month, date) ==
    DaysFromCivil(year + month \div 12, (month % 12) + 1, 1) + date - 1

\* new Date(year, month, date): local midnight of that day.
NewDate(year, month, date) == TicksPerDay * MakeDay(year, month, date)

getFullYear(t) == CivilFromDays(t \div TicksPerDay).y

getMonth(t) == CivilFromDays(t \div TicksPerDay).m - 1

getDate(t) == CivilFromDays(t \div TicksPerDay).d

TimeInDay(t) == t % TicksPerDay

\* date.setMonth(month): same year, day of month and time of day.
setMonth(t, month) ==
    LET c == CivilFromDays(t \div TicksPerDay)
    IN  TicksPerDay * MakeDay(c.y, month, c.d) + TimeInDay(t)

\* date.setDate(date): same year, month and time of day.
setDate(t, date) ==
    LET c == CivilFromDays(t \div TicksPerDay)
    IN  TicksPerDay * MakeDay(c.y, c.m - 1, date) + TimeInDay(t)

\* The months since year 0 of the month t lies in.
MonthIndex(t) == getFullYear(t) * 12 + getMonth(t)

-----------------------------------------------------------------------------
(* Utility functions *)

\* A faulty startOfCycle: the date starts from today, not from the 1st.
startOfCycle_KeepDay(cycleMonths, now) ==
    LET date == NewDate(getFullYear(now), getMonth(now), getDate(now))
    IN  setDate(setMonth(date, getMonth(now) - (cycleMonths - 1)), 1)

\* A faulty startOfCycle: from today, and the day is never set to 1.
startOfCycle_Today(cycleMonths, now) ==
    LET date == NewDate(getFullYear(now), getMonth(now), getDate(now))
    IN  setMonth(date, getMonth(now) - (cycleMonths - 1))

\* startOfCycle(cycleMonths), with the clock it reads (new Date()) as `now`.
startOfCycle(cycleMonths, now) ==
    LET date == NewDate(getFullYear(now), getMonth(now), 1)
    IN  setDate(setMonth(date, getMonth(now) - (cycleMonths - 1)), 1)

\* A faulty calculateCycleBudget: every frequency treated as monthly.
calculateCycleBudget_Monthly(baseLimit, baseFrequency, cycleMonths) ==
    LET limit == OrElse(baseLimit, 0)
    IN  IF limit <= 0 THEN 0 ELSE limit * cycleMonths

\* A faulty calculateCycleBudget: an unknown frequency gives nothing.
calculateCycleBudget_UnknownZero(baseLimit, baseFrequency, cycleMonths) ==
    LET limit == OrElse(baseLimit, 0)
    IN  IF limit <= 0 THEN 0
        ELSE CASE baseFrequency = "daily" ->
                    (limit * cycleMonths * AVG_DAYS_PER_MONTH) \div Scale
               [] baseFrequency = "monthly" -> limit * cycleMonths
               [] baseFrequency = "bimonthly" -> (limit * cycleMonths) \div 2
               [] OTHER -> 0

\* A faulty calculateCycleBudget: a limit below 0 is taken as it is.
calculateCycleBudget_NoGuard(baseLimit, baseFrequency, cycleMonths) ==
    LET limit == OrElse(baseLimit, 0)
    IN  CASE baseFrequency = "daily" ->
                (limit * cycleMonths * AVG_DAYS_PER_MONTH) \div Scale
          [] baseFrequency = "monthly" -> limit * cycleMonths
          [] baseFrequency = "bimonthly" -> (limit * cycleMonths) \div 2
          [] OTHER -> limit * cycleMonths

\* A faulty calculateCycleBudget: the bi-monthly amount is cut to a whole
\* number.
calculateCycleBudget_WholeBimonthly(baseLimit, baseFrequency, cycleMonths) ==
    LET limit == OrElse(baseLimit, 0)
    IN  IF limit <= 0 THEN 0
        ELSE CASE baseFrequency = "daily" ->
                    (limit * cycleMonths * AVG_DAYS_PER_MONTH) \div Scale
               [] baseFrequency = "monthly" -> limit * cycleMonths
               [] baseFrequency = "bimonthly" ->
                    ((limit * cycleMonths) \div (2 * Scale)) * Scale
               [] OTHER -> limit * cycleMonths

\* A faulty calculateCycleBudget: a month of 30 days.
calculateCycleBudget_ThirtyDays(baseLimit, baseFrequency, cycleMonths) ==
    LET limit == OrElse(baseLimit, 0)
    IN  IF limit <= 0 THEN 0
        ELSE CASE baseFrequency = "daily" -> limit * cycleMonths * 30
               [] baseFrequency = "monthly" -> limit * cycleMonths
               [] baseFrequency = "bimonthly" -> (limit * cycleMonths) \div 2
               [] OTHER -> limit * cycleMonths

\* calculateCycleBudget(baseLimit, baseFrequency, cycleMonths); baseLimit is
\* the value parseFloat gives (a number or NaN).
calculateCycleBudget(baseLimit, baseFrequency, cycleMonths) ==
    LET limit == OrElse(baseLimit, 0)
    IN  IF limit <= 0 THEN 0
        ELSE CASE baseFrequency = "daily" ->
                    (limit * cycleMonths * AVG_DAYS_PER_MONTH) \div Scale
               [] baseFrequency = "monthly" -> limit * cycleMonths
               [] baseFrequency = "bimonthly" -> (limit * cycleMonths) \div 2
               [] OTHER -> limit * cycleMonths

-----------------------------------------------------------------------------
(* Constants of the program *)

FREQUENCIES == {"monthly", "bimonthly", "daily"}

DEFAULT_CURRENCY_CODE == "USD"

\* The colours a category can be given (1-based here; the form starts with
\* the first).
COLORS ==
    << "#673AB7", "#03A9F4", "#009688", "#FF9800", "#F44336",
       "#E91E63", "#9C27B0", "#3F51B5", "#00BCD4", "#4CAF50" >>

\* The cycle lengths the settings card offers.
CycleOptions == {1, 2, 3, 6, 12}

\* The number of cycles the comparison chart shows (current + 4 previous).
numCycles == 5

\* toLocaleString('default', {month: 'short'}) of each month (en-US).
ShortMonth ==
    <<"Jan", "Feb", "Mar", "Apr", "May", "Jun",
      "Jul", "Aug", "Sep", "Oct", "Nov", "Dec">>

\* The same text with its first two characters sliced off (.slice(2)).
ShortMonthSlice2 ==
    <<"n", "b", "r", "r", "y", "n", "l", "g", "p", "t", "v", "c">>

-----------------------------------------------------------------------------
(* Bounds of the model *)

\* Transactions the store holds at most.
MaxTx == 2

\* How many listeners may be waiting for their snapshot at a time.
MaxUndelivered == 1

\* Ticks the clock of Spec advances at most.
MaxTicks == 1

\* Days the initial clock of SpecView ranges over.
ViewDays == 3

\* Days the initial clock of SpecDates ranges over.
DateDays == 62

\* Category document ids as addDoc gives them, in document order.
CatIds == <<"c1", "c2">>

\* Category document ids another client writes documents under: names of
\* its own choosing.
NamedCatIds == <<"constructor">>

\* All of them, in document order.
DocIds == CatIds \o NamedCatIds

\* Names of categories and sources.
Food == Chars("Food")

Groceries == Chars("Groceries")

Rent == Chars("Rent")

Cash == Chars("Cash")

Salary == Chars("Salary")

\* The names of categories, in localeCompare order.
Names == << Food, Groceries, Rent >>

\* What is entered in the category forms (limits in whole units).
CategoryInputs ==
    { [name |-> Food, baseLimit |-> 2 * Scale, baseFrequency |-> "monthly",
       color |-> COLORS[1], icon |-> "Tag"],
      [name |-> Chars(" Rent "), baseLimit |-> Scale, baseFrequency |-> "daily",
       color |-> COLORS[1], icon |-> "Tag"],
      [name |-> Food, baseLimit |-> Scale, baseFrequency |-> "bimonthly",
       color |-> COLORS[1], icon |-> "Tag"],
      [name |-> Rent, baseLimit |-> 0, baseFrequency |-> "monthly",
       color |-> COLORS[1], icon |-> "Tag"] }

\* What is entered in the expense form, besides the category (amounts in
\* whole units): a source that reads as a number, between spaces, and one
\* that does not, between a no-break space (U+00A0) and an em space
\* (U+2003) followed by a line separator (U+2028).
ExpenseInputs ==
    { [amount |-> Scale, source |-> Chars(" 7 ")],
      [amount |-> 2 * Scale,
       source |-> << 160 >> \o Cash \o << 8195, 8232 >>] }

\* What is entered in the income form: a source, and nothing but white
\* space (a space, a form feed, an ideographic space, U+3000).
IncomeInputs ==
    { [amount |-> Scale, source |-> Salary],
      [amount |-> 2 * Scale, source |-> << 32, 12, 12288 >>] }

\* What is chosen in the settings card.
SettingsInputs ==
    { [cycleMonths |-> 1, currencyCode |-> "USD"],
      [cycleMonths |-> 2, currencyCode |-> "USD"],
      [cycleMonths |-> 12, currencyCode |-> "EUR"] }

\* What the forms accept besides: the create forms take any amount and
\* limit from 0 up (min="0"), the edit form of a category any number.
FormCategoryInputs ==
    { [name |-> Groceries, baseLimit |-> 200 * Scale,
       baseFrequency |-> "monthly", color |-> COLORS[1], icon |-> "Tag"],
      [name |-> Rent, baseLimit |-> 0, baseFrequency |-> "daily",
       color |-> COLORS[1], icon |-> "Tag"] }

FormEditInputs ==
    { [name |-> Groceries, baseLimit |-> -5 * Scale,
       baseFrequency |-> "monthly"],
      [name |-> Rent, baseLimit |-> Scale, baseFrequency |-> "bimonthly"] }

FormExpenseAmounts == {0, 30 * Scale, 50 * Scale}

FormIncomeAmounts == {0, 100 * Scale}

FormSettingsInputs ==
    { [cycleMonths |-> 1, currencyCode |-> "USD"],
      [cycleMonths |-> 2, currencyCode |-> "USD"] }

\* Updates of the settings that give one field or both.
PartialSettingsInputs ==
    { [cycleMonths |-> c] : c \in {1, 2, 12} }
    \cup { [currencyCode |-> k] : k \in {"USD", "EUR"} }
    \cup SettingsInputs

\* Category documents as another client may have written them: baseLimit
\* and baseFrequency absent or of any value (NaN stands for what does not
\* parse as a number).
RemoteLimits == {NaN, -5 * Scale, 0, 5 * Scale, 100 * Scale, 150 * Scale}

RemoteFrequencies == {"monthly", "bimonthly", "daily", "weekly"}

RemoteCategoryDocs ==
    { [name |-> Food, baseLimit |-> b, baseFrequency |-> f] :
          b \in RemoteLimits, f \in RemoteFrequencies }
    \cup { [name |-> Food, baseLimit |-> b] : b \in RemoteLimits }
    \cup { [name |-> Food, baseFrequency |-> f] : f \in RemoteFrequencies }
    \cup { [name |-> Food] }

\* The documents of the second category.
RemoteSecondDocs ==
    { [name |-> Rent, baseLimit |-> 100 * Scale, baseFrequency |-> "daily"],
      [name |-> Rent, baseLimit |-> 150 * Scale,
       baseFrequency |-> "bimonthly"] }

RemoteDocsOf(i) == IF i = 1 THEN RemoteCategoryDocs ELSE RemoteSecondDocs

\* Category documents of older versions: the limit under budgetLimit, no
\* baseFrequency; and documents that carry both limits.
LegacyLimits == {NaN, 0, 3 * Scale}

LegacyBudgetLimits == {NaN, 50 * Scale}

LegacyCategoryDocs ==
    { [name |-> Food, baseLimit |-> b, budgetLimit |-> l] :
          b \in LegacyLimits, l \in LegacyBudgetLimits }
    \cup { [name |-> Food, baseLimit |-> b, budgetLimit |-> l,
            baseFrequency |-> "daily"] :
              b \in LegacyLimits, l \in LegacyBudgetLimits }
    \cup { [name |-> Food, budgetLimit |-> l] : l \in LegacyBudgetLimits }
    \cup { [name |-> Food, baseLimit |-> b] : b \in LegacyLimits }
    \cup { [name |-> Food], [name |-> Food, baseFrequency |-> "daily"] }

\* The documents of the second category: with color and icon, as the edit
\* form needs them.
LegacySecondDocs ==
    { [name |-> Rent, budgetLimit |-> 50 * Scale, color |-> COLORS[1],
       icon |-> "Tag"] }

LegacyDocsOf(i) == IF i = 1 THEN LegacyCategoryDocs ELSE LegacySecondDocs

\* What is saved in the edit form of such a category.
LegacyEditInputs ==
    { [name |-> Rent, baseLimit |-> 0, baseFrequency |-> "monthly"],
      [name |-> Rent, baseLimit |-> 3 * Scale, baseFrequency |-> "monthly"] }

\* Category documents another client writes under a name of its own: one
\* without a limit and one with.
NamedCategoryDocs ==
    { [name |-> Food, baseLimit |-> 0, baseFrequency |-> "monthly"],
      [name |-> Food, baseLimit |-> 5 * Scale, baseFrequency |-> "monthly"] }

\* What is entered in the expense form, besides the category, where the
\* source is the name of a property every object has: a method, a method
\* after a space, the accessor __proto__; and a source that is none.
NamedExpenseInputs ==
    { [amount |-> Scale, source |-> Chars("constructor")],
      [amount |-> 2 * Scale, source |-> Chars(" valueOf")],
      [amount |-> Scale, source |-> Chars("__proto__")],
      [amount |-> 3 * Scale, source |-> Cash] }

\* Transaction documents with the amount absent or not a number.
MalformedTxDocs ==
    { [type |-> "expense"], [type |-> "expense", amount |-> Scale],
      [type |-> "budget", amount |-> NaN],
      [type |-> "budget", amount |-> 2 * Scale] }

\* The clock of Spec at Init: the last tick of 2024-01-31.
AppStart == NewDate(2024, 1, 1) - 1

\* The first day of the initial clocks of SpecView: 2024-03-30.
ViewStart == NewDate(2024, 2, 30)

\* The first day of the initial clocks of SpecDates: 2024-01-30.
DatesStart == NewDate(2024, 0, 30)

\* Timestamps of the transactions other devices write in SpecView when
\* the clock reads t: t itself, midnight of the 1st of t's month, twelve
\* days before t, and (from a device whose clock is wrong) 2030-01-01.
ViewTxTimes(t) ==
    { t, NewDate(getFullYear(t), getMonth(t), 1), t - 12 * TicksPerDay,
      NewDate(2030, 0, 1) }

\* The tabs visited in SpecView.
ViewTabs == {"overview", "analysis"}

\* Cycle lengths a settings document written elsewhere may carry.
AllCycles == CycleOptions \cup {0, -1}

\* Those of them written in SpecView: the shortest, an even one, the
\* longest, none and a negative one.
ViewCycles == {1, 2, 12, 0, -1}

-----------------------------------------------------------------------------
(* State *)

VARIABLES
    storeCats,          \* the categories collection: documents in id order
    storeExps,          \* the expenses collection: documents in id order
    storeSettings,      \* the settings/user_settings document (<<>>: none)
    categories,         \* useState: sanitized categories, sorted by name
    expenses,           \* useState: transactions as loaded
    settings,           \* useState: settings
    activeTab,          \* useState: the tab shown
    cycleExpenses,      \* useMemo: expense entries of the current cycle
    cycleBudgets,       \* useMemo: income entries of the current cycle
    currentCycleStart,  \* useMemo: start of the current cycle
    summary,            \* useMemo: the summary
    cycleData,          \* ExpenseCycleBarChart's series, rendered on the
                        \* analysis tab (<<>> while it is not mounted)
    cycleWindows,       \* the startDate and endDate its loop computed for
                        \* each entry of cycleData
    now,                \* the clock (new Date())
    catIdsGiven,        \* the category ids a document ever had or named
    txIdsGiven,         \* how many transaction ids were ever given
    undelivered         \* the listeners whose collection was written and
                        \* whose snapshot callback has not run yet

vars ==
    << storeCats, storeExps, storeSettings, categories, expenses, settings,
       activeTab, cycleExpenses, cycleBudgets, currentCycleStart, summary,
       cycleData, cycleWindows, now, catIdsGiven, txIdsGiven, undelivered >>

idsGiven == << catIdsGiven, txIdsGiven >>

-----------------------------------------------------------------------------
(* Snapshot listeners: from store documents to React state *)

\* The position of a name in localeCompare order.
NameRank(name) == CHOOSE i \in 1..Len(Names) : Names[i] = name

\* a.name.localeCompare(b.name) <= 0
NameLe(a, b) == NameRank(a.name) <= NameRank(b.name)

\* cats.sort((a, b) => a.name.localeCompare(b.name)): a stable sort.
RECURSIVE SortByName(_)
SortByName(cats) ==
    IF cats = <<>> THEN <<>>
    ELSE LET last   == cats[Len(cats)]
             front  == SortByName(SubSeq(cats, 1, Len(cats) - 1))
             before == SelectSeq(front, LAMBDA c : NameLe(c, last))
             after  == SelectSeq(front, LAMBDA c : ~NameLe(c, last))
         IN  before \o <<last>> \o after

\* A faulty SanitizeCat: budgetLimit is not looked at.
SanitizeCat_NoLegacy(cat) ==
    [f \in DOMAIN cat \cup {"baseLimit", "baseFrequency"} |->
        CASE f = "baseLimit" -> OrElse(parseFloat(cat, "baseLimit"), 0)
          [] f = "baseFrequency" ->
                IF Has(cat, "baseFrequency") /\ cat.baseFrequency # ""
                THEN cat.baseFrequency ELSE "monthly"
          [] OTHER -> cat[f]]

\* One category as the categories listener sanitizes it.
SanitizeCat(cat) ==
    [f \in DOMAIN cat \cup {"baseLimit", "baseFrequency"} |->
        CASE f = "baseLimit" ->
                OrElse(parseFloat(cat, "baseLimit"),
                       OrElse(parseFloat(cat, "budgetLimit"), 0))
          [] f = "baseFrequency" ->
                IF Has(cat, "baseFrequency") /\ cat.baseFrequency # ""
                THEN cat.baseFrequency ELSE "monthly"
          [] OTHER -> cat[f]]

\* The categories listener: sanitizedCats, sorted by name.
LoadCategories(docs) ==
    SortByName([i \in 1..Len(docs) |-> SanitizeCat(docs[i])])

\* A faulty LoadExpense: every transaction is stamped with the time of
\* loading.
LoadExpense_Restamp(d, t) ==
    [f \in DOMAIN d \cup {"amount", "timestamp"} |->
        CASE f = "amount" -> parseFloat(d, "amount")
          [] f = "timestamp" -> t
          [] OTHER -> d[f]]

\* One transaction as the expenses listener loads it at time t.
LoadExpense(d, t) ==
    [f \in DOMAIN d \cup {"amount", "timestamp"} |->
        CASE f = "amount" -> parseFloat(d, "amount")
          [] f = "timestamp" -> IF Has(d, "timestamp") THEN d.timestamp ELSE t
          [] OTHER -> d[f]]

\* The expenses listener, run at time t.
LoadExpenses(docs, t) == [i \in 1..Len(docs) |-> LoadExpense(docs[i], t)]

\* setSettings(prev => ({ ...prev, ...docSnap.data() })), and setDoc with
\* { merge: true }: the fields of data overwrite, the others stay.
Merge(prev, data) ==
    [f \in DOMAIN prev \cup DOMAIN data |->
        IF f \in DOMAIN data THEN data[f] ELSE prev[f]]

\* The settings listener: nothing is set while no document exists.
LoadSettings(prev, docData) ==
    IF docData = <<>> THEN prev ELSE Merge(prev, docData)

-----------------------------------------------------------------------------
(* Calculations and derived state *)

\* settings.cycleMonths || 1
CycleMonthsOf(s) == OrElse(s.cycleMonths, 1)

\* A faulty filterData: the start itself is left out.
filterData_After(data, startDate) ==
    SelectSeq(data, LAMBDA item : item.timestamp > startDate)

\* data.filter(item => item.timestamp >= startDate)
filterData(data, startDate) ==
    SelectSeq(data, LAMBDA item : item.timestamp >= startDate)

OfType(data, type) == SelectSeq(data, LAMBDA e : e.type = type)

\* The first useMemo of App, run at time t.
CycleMemo(exps, s, t) ==
    LET currentStart == startOfCycle(CycleMonthsOf(s), t)
    IN  [ cycleExpenses |-> filterData(OfType(exps, "expense"), currentStart),
          cycleBudgets |-> filterData(OfType(exps, "budget"), currentStart),
          currentCycleStart |-> currentStart ]

\* entries.reduce((sum, entry) => sum + entry.amount, 0)
RECURSIVE SumAmount(_)
SumAmount(entries) ==
    IF entries = <<>> THEN 0
    ELSE JSAdd(SumAmount(SubSeq(entries, 1, Len(entries) - 1)),
               entries[Len(entries)].amount)

\* categories.reduce((sum, cat) => sum + calculateCycleBudget(...), 0)
RECURSIVE SumCycleBudget(_, _)
SumCycleBudget(cats, cycleMonths) ==
    IF cats = <<>> THEN 0
    ELSE LET cat == cats[Len(cats)]
         IN  JSAdd(SumCycleBudget(SubSeq(cats, 1, Len(cats) - 1), cycleMonths),
                   calculateCycleBudget(cat.baseLimit, cat.baseFrequency,
                                        cycleMonths))

\* {}: an object without own properties.
EmptyObject == [key \in {} |-> Undefined]

\* acc[key] of an object created by {}: the own property, else what the
\* object inherits under that name.
Get(acc, key) == IF key \in DOMAIN acc THEN acc[key] ELSE Inherited(key)

\* acc[key] = v for a number or a string v: the own property is set; under
\* the name __proto__ the inherited setter is called, which ignores a value
\* that is neither an object nor null.
Put(acc, key, v) ==
    IF key = "__proto__" THEN acc
    ELSE [k \in DOMAIN acc \cup {key} |-> IF k = key THEN v ELSE acc[k]]

\* One step of the expenseByCategory reduce:
\* acc[categoryId] = (acc[categoryId] || 0) + expense.amount
CategoryStep(acc, expense) ==
    Put(acc, expense.categoryId,
        Plus(Either(Get(acc, expense.categoryId), Num(0)),
             Num(expense.amount)))

\* cycleExpenses.reduce(..., {}): categoryId -> what the additions gave.
RECURSIVE ExpenseByCategory(_)
ExpenseByCategory(cycleExps) ==
    IF cycleExps = <<>> THEN EmptyObject
    ELSE CategoryStep(ExpenseByCategory(SubSeq(cycleExps, 1,
                                               Len(cycleExps) - 1)),
                      cycleExps[Len(cycleExps)])

\* One row of chartData, before the filter.
ChartRow(cat, byCategory, cycleMonths) ==
    [ name |-> cat.name,
      value |-> Either(Get(byCategory, cat.id), Num(0)),
      id |-> cat.id,
      budgetLimit |-> calculateCycleBudget(cat.baseLimit, cat.baseFrequency,
                                           cycleMonths),
      baseFrequency |-> cat.baseFrequency,
      baseLimit |-> OrElse(cat.baseLimit, 0) ]

\* A faulty remaining: the income recorded is added.
Remaining_PlusIncome(totalBudgetLimit, totalActualBudget, totalExpenses) ==
    JSAdd(JSSub(totalBudgetLimit, totalExpenses), totalActualBudget)

\* remaining, tracked against the calculated category limits.
Remaining(totalBudgetLimit, totalActualBudget, totalExpenses) ==
    JSSub(totalBudgetLimit, totalExpenses)

\* The filter of chartData: item.value > 0 || item.budgetLimit > 0
KeepRow(item) == JSGt(ToNumber(item.value), 0) \/ JSGt(item.budgetLimit, 0)

\* The summary useMemo of App.
Summary(cats, cycleExps, cycleBuds, s) ==
    LET cycleMonths == CycleMonthsOf(s)
        totalBudgetLimit == SumCycleBudget(cats, cycleMonths)
        totalActualBudget == SumAmount(cycleBuds)
        totalExpenses == SumAmount(cycleExps)
        byCategory == ExpenseByCategory(cycleExps)
        rows == [i \in 1..Len(cats) |-> ChartRow(cats[i], byCategory, cycleMonths)]
    IN  [ totalBudgetLimit |-> totalBudgetLimit,
          totalActualBudget |-> totalActualBudget,
          totalExpenses |-> totalExpenses,
          remaining |-> Remaining(totalBudgetLimit, totalActualBudget,
                                  totalExpenses),
          expenseByCategory |-> byCategory,
          chartData |-> SelectSeq(rows, KeepRow) ]

\* A faulty isOverActualBudget: no income counts as exceeded.
isOverActualBudget_NoGuard(s) == JSGt(s.totalExpenses, s.totalActualBudget)

\* OverviewTab: expenses exceed the actual income recorded.
isOverActualBudget(s) ==
    JSGt(s.totalExpenses, s.totalActualBudget) /\ JSGt(s.totalActualBudget, 0)

-----------------------------------------------------------------------------
(* AllocateTab *)

\* cycleBudget of a category's card: settings.cycleMonths is passed as it is.
AllocateCycleBudget(cat, s) ==
    calculateCycleBudget(cat.baseLimit, cat.baseFrequency, s.cycleMonths)

-----------------------------------------------------------------------------
(* OverviewTab: Expense Sources *)

\* Whether every code unit of s is a decimal digit (0 is 48, 9 is 57).
IsDigits(s) == \A i \in 1..Len(s) : s[i] \in 48..57

\* The number a text of decimal digits denotes.
RECURSIVE DigitsValue(_)
DigitsValue(s) ==
    IF Len(s) = 0 THEN 0
    ELSE 10 * DigitsValue(SubSeq(s, 1, Len(s) - 1)) + (s[Len(s)] - 48)

\* The number of a text of at most ten digits, as its last five digits
\* and those before them (2^32 is beyond the integers at hand).
LowPart(key) ==
    DigitsValue(SubSeq(key, IF Len(key) > 5 THEN Len(key) - 4 ELSE 1, Len(key)))

HighPart(key) ==
    IF Len(key) > 5 THEN DigitsValue(SubSeq(key, 1, Len(key) - 5)) ELSE 0

\* Whether key is an array index: the canonical decimal string of an
\* integer from 0 to 2^32 - 2 = 4294967294.
IsArrayIndex(key) ==
    /\ Len(key) >= 1 /\ Len(key) <= 10
    /\ IsDigits(key)
    /\ Len(key) = 1 \/ key[1] # 48
    /\ \/ HighPart(key) < 42949
       \/ HighPart(key) = 42949 /\ LowPart(key) <= 67294

\* Whether the own property of key k1 is listed before the new key k2: array
\* indices come first, in ascending order, the other keys after them in
\* order of insertion.
ListedBefore(k1, k2) ==
    IF IsArrayIndex(k2)
    THEN /\ IsArrayIndex(k1)
         /\ \/ HighPart(k1) < HighPart(k2)
            \/ HighPart(k1) = HighPart(k2) /\ LowPart(k1) < LowPart(k2)
    ELSE TRUE

\* acc[source] of the object the reduce began with as {}, its own
\* properties held as the entries Object.entries lists: the own property,
\* else what the object inherits under that name.
GetSource(acc, source) ==
    IF \E k \in 1..Len(acc) : acc[k].source = source
    THEN acc[CHOOSE k \in 1..Len(acc) : acc[k].source = source].amount
    ELSE InheritedAt(source)

\* acc[source] = v for a number or a string v: an own property is
\* overwritten in its place, a new one is placed where Object.entries
\* lists it; under the name __proto__ the inherited setter is called, which
\* ignores a value that is neither an object nor null.
PutSource(acc, source, v) ==
    IF source = InheritedChars["__proto__"] THEN acc
    ELSE IF \E k \in 1..Len(acc) : acc[k].source = source
         THEN [k \in 1..Len(acc) |->
                 IF acc[k].source = source
                 THEN [source |-> source, amount |-> v] ELSE acc[k]]
         ELSE SelectSeq(acc, LAMBDA e : ListedBefore(e.source, source))
              \o << [source |-> source, amount |-> v] >>
              \o SelectSeq(acc, LAMBDA e : ~ListedBefore(e.source, source))

\* One step of the reduce: acc[exp.source] = (acc[exp.source] || 0) +
\* exp.amount for an expense.
SourceStep(acc, exp) ==
    IF exp.type # "expense" THEN acc
    ELSE PutSource(acc, exp.source,
                   Plus(Either(GetSource(acc, exp.source), Num(0)),
                        Num(exp.amount)))

\* Object.entries(cycleExpenses.reduce(..., {}))
RECURSIVE SourceEntries(_)
SourceEntries(cycleExps) ==
    IF cycleExps = <<>> THEN <<>>
    ELSE SourceStep(SourceEntries(SubSeq(cycleExps, 1, Len(cycleExps) - 1)),
                    cycleExps[Len(cycleExps)])

\* The comparator ([, a], [, b]) => b - a as sort takes it: the amounts
\* are converted to numbers, a result of NaN counts as 0.
CompareByAmount(x, y) ==
    IF IsNaN(JSSub(ToNumber(y.amount), ToNumber(x.amount))) THEN 0
    ELSE ToNumber(y.amount) - ToNumber(x.amount)

Reversed(seq) == [k \in 1..Len(seq) |-> seq[Len(seq) + 1 - k]]

\* Whether the run at the head of entries is a descending one.
IsDescending(entries) == CompareByAmount(entries[2], entries[1]) < 0

\* The last position of the run of entries that reaches position idx - 1.
RECURSIVE RunEnd(_, _)
RunEnd(entries, idx) ==
    IF idx > Len(entries) THEN Len(entries)
    ELSE IF IsDescending(entries)
              = (CompareByAmount(entries[idx], entries[idx - 1]) < 0)
         THEN RunEnd(entries, idx + 1)
         ELSE idx - 1

\* The run at the head of entries, made ascending.
HeadRun(entries) ==
    IF IsDescending(entries)
    THEN Reversed(SubSeq(entries, 1, RunEnd(entries, 3)))
    ELSE SubSeq(entries, 1, RunEnd(entries, 3))

\* How many entries of sorted the binary search between left and right
\* (counted from 0) puts before pivot.
RECURSIVE InsertionPoint(_, _, _, _)
InsertionPoint(sorted, pivot, left, right) ==
    IF left >= right THEN left
    ELSE IF CompareByAmount(pivot, sorted[left + (right - left) \div 2 + 1]) < 0
         THEN InsertionPoint(sorted, pivot, left,
                             left + (right - left) \div 2)
         ELSE InsertionPoint(sorted, pivot,
                             left + (right - left) \div 2 + 1, right)

\* sorted with pivot inserted where the binary search puts it.
Inserted(sorted, pivot, left) ==
    SubSeq(sorted, 1, left) \o <<pivot>> \o SubSeq(sorted, left + 1, Len(sorted))

\* The binary insertion sort: the entries of rest inserted one by one.
RECURSIVE BinaryInsertionSort(_, _)
BinaryInsertionSort(sorted, rest) ==
    IF rest = <<>> THEN sorted
    ELSE BinaryInsertionSort(
            Inserted(sorted, rest[1],
                     InsertionPoint(sorted, rest[1], 0, Len(sorted))),
            SubSeq(rest, 2, Len(rest)))

\* The run at the head of entries with the other entries inserted into it
\* by binary insertion.  This is how the engine (V8) sorts an array of
\* fewer than MinMerge elements; and it is a stable sort, so whenever the
\* comparator is consistent it gives what every sort of Array.prototype.sort
\* gives, whatever the length.
SortByAmount(entries) ==
    IF Len(entries) < 2 THEN entries
    ELSE BinaryInsertionSort(
            HeadRun(entries),
            SubSeq(entries, RunEnd(entries, 3) + 1, Len(entries)))

\* The length from which on the engine sorts runs apart and merges them.
MinMerge == 64

\* Whether the comparator is a consistent one on entries: it is unless an
\* amount that is not a number (it compares equal to every amount) meets
\* two amounts that differ.
ConsistentByAmount(entries) ==
    \/ \A k \in 1..Len(entries) : ~IsNaN(ToNumber(entries[k].amount))
    \/ \A k, l \in 1..Len(entries) :
          CompareByAmount(entries[k], entries[l]) = 0

\* The arrangements of entries.
Arrangements(entries) ==
    { [k \in 1..Len(entries) |-> entries[p[k]]] :
        p \in { q \in [1..Len(entries) -> 1..Len(entries)] :
                  \A k, l \in 1..Len(entries) : q[k] = q[l] => k = l } }

\* What entries.sort(([, a], [, b]) => b - a) may leave, largest first.
\* With a comparator that is not consistent the order is
\* implementation-defined (ECMAScript, Array.prototype.sort): below MinMerge
\* elements it is the one of the binary insertion, from there on, where it
\* hangs on how the runs are merged, any arrangement.
SortOutcomes(entries) ==
    IF Len(entries) < MinMerge \/ ConsistentByAmount(entries)
    THEN { SortByAmount(entries) }
    ELSE Arrangements(entries)

\* The entries the Expense Sources card may list.
ExpenseSources(cycleExps) == SortOutcomes(SourceEntries(cycleExps))

-----------------------------------------------------------------------------
(* ExpensesTab *)

\* spent = data.value || 0, as a number.
Spent(data) == ToNumber(Either(data.value, Num(0)))

\* percentage = limit > 0 ? (spent / limit) * 100 : 0, of a row of chartData
\* (limit = data.budgetLimit || 0), as a fraction; its numerator is NaN when
\* spent is not a number.
Percentage(data) ==
    IF JSGt(OrElse(data.budgetLimit, 0), 0)
    THEN IF IsNaN(Spent(data)) THEN [num |-> NaN, den |-> 1]
         ELSE [num |-> Spent(data) * 100, den |-> OrElse(data.budgetLimit, 0)]
    ELSE [num |-> 0, den |-> 1]

\* percentage > n
PercentageGt(p, n) == ~IsNaN(p.num) /\ p.num > n * p.den

\* barColor of a row's bar.
barColor(data) ==
    IF PercentageGt(Percentage(data), 100) THEN "bg-red-500"
    ELSE IF PercentageGt(Percentage(data), 75) THEN "bg-yellow-500"
    ELSE "bg-green-500"

\* Whether the row shows OVERSPENT (percentage > 100 && ...).
OverspentShown(data) == PercentageGt(Percentage(data), 100)

\* The amount shown with it: spent - limit.
OverspentBy(data) == JSSub(Spent(data), OrElse(data.budgetLimit, 0))

-----------------------------------------------------------------------------
(* ExpenseCycleBarChart *)

\* A faulty CycleWindow: each window starts a month late.
CycleWindow_Gap(i, cycleMonths, t) ==
    LET year  == getFullYear(t)
        month == getMonth(t)
    IN  [ endDate |-> setMonth(NewDate(year, month, getDate(t)),
                               month - (i * cycleMonths)),
          startDate |-> setMonth(NewDate(year, month, 1),
                                 month - ((i + 1) * cycleMonths) + 2) ]

\* The endDate and startDate the loop computes for cycle i (0: the current
\* one) at time t.
CycleWindow(i, cycleMonths, t) ==
    LET year  == getFullYear(t)
        month == getMonth(t)
    IN  [ endDate |-> setMonth(NewDate(year, month, getDate(t)),
                               month - (i * cycleMonths)),
          startDate |-> setMonth(NewDate(year, month, 1),
                                 month - ((i + 1) * cycleMonths) + 1) ]

\* The label of cycle i: labelStart's short month, "-", and labelEnd's
\* "MMM YYYY" with its first two characters sliced off.
CycleLabel(i, w) ==
    IF i = 0 THEN "Current"
    ELSE LET labelStart == NewDate(getFullYear(w.startDate),
                                   getMonth(w.startDate), 1)
             labelEnd   == NewDate(getFullYear(w.endDate),
                                   getMonth(w.endDate) + 1, 0)
         IN  ShortMonth[getMonth(labelStart) + 1] \o "-"
             \o ShortMonthSlice2[getMonth(labelEnd) + 1] \o " "
             \o ToString(getFullYear(labelEnd))

\* What the loop pushes for cycle i with the window w (name, Expenses,
\* isCurrent), with the startDate and endDate it filtered by.
CycleEntryOf(i, exps, w) ==
    [ name |-> CycleLabel(i, w),
      Expenses |-> SumAmount(SelectSeq(exps, LAMBDA exp :
                       /\ exp.type = "expense"
                       /\ exp.timestamp >= w.startDate
                       /\ exp.timestamp <= w.endDate)),
      isCurrent |-> (i = 0),
      startDate |-> w.startDate,
      endDate |-> w.endDate ]

\* One pass of the loop, for cycle i at time t.
CycleEntry(i, exps, cycleMonths, t) ==
    CycleEntryOf(i, exps, CycleWindow(i, cycleMonths, t))

\* A faulty CycleData: the entries are left newest first.
CycleData_NoReverse(exps, cycleMonths, t) ==
    IF Len(exps) = 0 \/ cycleMonths = 0 THEN <<>>
    ELSE [k \in 1..numCycles |-> CycleEntry(k - 1, exps, cycleMonths, t)]

\* The passes of cycles 0..numCycles-1, reversed (oldest first).
CycleData(exps, cycleMonths, t) ==
    IF Len(exps) = 0 \/ cycleMonths = 0 THEN <<>>
    ELSE [k \in 1..numCycles |->
            CycleEntry(numCycles - k, exps, cycleMonths, t)]

\* cycleData: what the passes pushed.
Pushed(data) ==
    [k \in DOMAIN data |-> [ name |-> data[k].name,
                             Expenses |-> data[k].Expenses,
                             isCurrent |-> data[k].isCurrent ]]

\* The startDate and endDate of the passes, in the order of cycleData.
Windows(data) ==
    [k \in DOMAIN data |-> [ startDate |-> data[k].startDate,
                             endDate |-> data[k].endDate ]]

-----------------------------------------------------------------------------
(* Renders: what a change of React state recomputes *)

\* AnalysisTab is a component App defines while rendering, so every render
\* of App mounts it and the chart anew: on the analysis tab cycleData is
\* computed at each render, on the other tabs there is no chart.
RenderChart(tab, exps, s, t) ==
    IF tab = "analysis" THEN CycleData(exps, s.cycleMonths, t) ELSE <<>>

\* The chart as rendered: cycleData and the windows behind it.
Rendered(data) ==
    /\ cycleData' = Pushed(data)
    /\ cycleWindows' = Windows(data)

\* The expenses listener's callback and the render it causes: setExpenses;
\* both memos of App depend on expenses and are recomputed, the chart is
\* rendered anew.
ExpensesSnapshot ==
    /\ "expenses" \in undelivered
    /\ undelivered' = undelivered \ {"expenses"}
    /\ expenses' = LoadExpenses(storeExps, now)
    /\ cycleExpenses' = CycleMemo(expenses', settings, now).cycleExpenses
    /\ cycleBudgets' = CycleMemo(expenses', settings, now).cycleBudgets
    /\ currentCycleStart' =
          CycleMemo(expenses', settings, now).currentCycleStart
    /\ summary' = Summary(categories, cycleExpenses', cycleBudgets', settings)
    /\ Rendered(RenderChart(activeTab, expenses', settings, now))
    /\ UNCHANGED << storeCats, storeExps, storeSettings, idsGiven, categories, settings,
                    activeTab, now >>

\* The categories listener's callback and the render it causes:
\* setCategories; the summary depends on categories and is recomputed from
\* the memoised cycle entries, the chart is rendered anew.
CategoriesSnapshot ==
    /\ "categories" \in undelivered
    /\ undelivered' = undelivered \ {"categories"}
    /\ categories' = LoadCategories(storeCats)
    /\ summary' = Summary(categories', cycleExpenses, cycleBudgets, settings)
    /\ Rendered(RenderChart(activeTab, expenses, settings, now))
    /\ UNCHANGED << storeCats, storeExps, storeSettings, idsGiven, expenses, settings,
                    activeTab, cycleExpenses, cycleBudgets, currentCycleStart,
                    now >>

\* The settings listener's callback and the render it causes: setSettings;
\* the memos depend on settings.cycleMonths alone and are kept when it has
\* not changed, the chart is rendered anew.
SettingsSnapshot ==
    /\ "settings" \in undelivered
    /\ undelivered' = undelivered \ {"settings"}
    /\ settings' = LoadSettings(settings, storeSettings)
    /\ IF settings'.cycleMonths # settings.cycleMonths
       THEN /\ cycleExpenses' =
                  CycleMemo(expenses, settings', now).cycleExpenses
            /\ cycleBudgets' =
                  CycleMemo(expenses, settings', now).cycleBudgets
            /\ currentCycleStart' =
                  CycleMemo(expenses, settings', now).currentCycleStart
            /\ summary' = Summary(categories, cycleExpenses', cycleBudgets',
                                  settings')
       ELSE UNCHANGED << cycleExpenses, cycleBudgets, currentCycleStart,
                         summary >>
    /\ Rendered(RenderChart(activeTab, expenses, settings', now))
    /\ UNCHANGED << storeCats, storeExps, storeSettings, idsGiven, categories, expenses,
                    activeTab, now >>

-----------------------------------------------------------------------------
(* The store's collections *)

Ids(docs) == {docs[i].id : i \in 1..Len(docs)}

DocOf(docs, id) == docs[CHOOSE i \in 1..Len(docs) : docs[i].id = id]

Without(docs, id) == SelectSeq(docs, LAMBDA d : d.id # id)

\* The id addDoc gives a new transaction: one never given before (the ids
\* are numbered in the order they are given).
FreshTxId == txIdsGiven + 1

\* The greatest id of docs, or of those given before.
LastTxId(docs) ==
    IF docs # <<>> /\ docs[Len(docs)].id > txIdsGiven
    THEN docs[Len(docs)].id ELSE txIdsGiven

\* The expenses collection with doc added, in id order.
WithTx(docs, doc) ==
    SelectSeq(docs, LAMBDA d : d.id < doc.id) \o <<doc>>
    \o SelectSeq(docs, LAMBDA d : d.id > doc.id)

CatPos(id) == CHOOSE i \in 1..Len(DocIds) : DocIds[i] = id

\* The id addDoc gives a new category: one no document ever had or named,
\* the first of them.
FreshCatId ==
    CatIds[CHOOSE i \in 1..Len(CatIds) :
              /\ CatIds[i] \notin catIdsGiven
              /\ \A j \in 1..(i - 1) : CatIds[j] \in catIdsGiven]

\* The category ids the transactions of docs name.
CategoryIdsOf(docs) ==
    { docs[i].categoryId : i \in { j \in 1..Len(docs) : Has(docs[j], "categoryId") } }

\* The categories collection with doc put (added or replaced), in id order.
WithCat(docs, doc) ==
    SelectSeq(docs, LAMBDA d : CatPos(d.id) < CatPos(doc.id)) \o <<doc>>
    \o SelectSeq(docs, LAMBDA d : CatPos(d.id) > CatPos(doc.id))

-----------------------------------------------------------------------------
(* Writes to the store *)

\* A write to a collection: the store changes at once, the listener's
\* callback runs later, as a task of its own.  At most MaxUndelivered
\* listeners are kept waiting.
Written(collection) ==
    /\ Cardinality(undelivered) < MaxUndelivered
    /\ undelivered' = undelivered \cup {collection}
    /\ UNCHANGED << categories, expenses, settings, activeTab, cycleExpenses,
                    cycleBudgets, currentCycleStart, summary, cycleData,
                    cycleWindows, now >>

WriteExpenses(docs) ==
    /\ Written("expenses")
    /\ storeExps' = docs
    /\ txIdsGiven' = LastTxId(docs)
    /\ catIdsGiven' = catIdsGiven \cup CategoryIdsOf(docs)
    /\ UNCHANGED << storeCats, storeSettings >>

WriteCategories(docs) ==
    /\ Written("categories")
    /\ storeCats' = docs
    /\ catIdsGiven' = catIdsGiven \cup Ids(docs)
    /\ UNCHANGED << storeExps, storeSettings, txIdsGiven >>

WriteSettings(docData) ==
    /\ Written("settings")
    /\ storeSettings' = docData
    /\ UNCHANGED << storeCats, storeExps, idsGiven >>

-----------------------------------------------------------------------------
(* Core CRUD operations: each handler awaits its write and returns *)

\* The source of an expense given none.
Unknown == Chars("Unknown")

\* The source of an income given none.
UncategorizedIncome == Chars("Uncategorized Income")

\* source.trim() || fallback
SourceOr(source, fallback) ==
    IF trim(source) = << >> THEN fallback ELSE trim(source)

handleDeleteTransaction(id) ==
    /\ id \in Ids(storeExps)
    /\ WriteExpenses(Without(storeExps, id))

\* addDoc rejects a field that is undefined: color and icon must be given
\* (the form gives COLORS[0] and 'Tag' when none is picked).
handleAddCategory(catData) ==
    /\ \E i \in 1..Len(CatIds) : CatIds[i] \notin catIdsGiven
    /\ Has(catData, "color") /\ Has(catData, "icon")
    /\ WriteCategories(WithCat(storeCats,
          [ id |-> FreshCatId,
            name |-> trim(catData.name),
            baseLimit |-> OrElse(catData.baseLimit, 0),
            baseFrequency |-> catData.baseFrequency,
            color |-> catData.color,
            icon |-> catData.icon ]))

\* The color of the edit form: the one picked there, else the one startEdit
\* copied from the category as loaded (none if the category has none).
editColor(cat, edit) == IF Has(edit, "color") THEN edit.color ELSE cat.color

\* AllocateTab.startEdit, saveEdit and handleUpdateCategory. startEdit
\* copies color and icon from the category as loaded, and the form can
\* pick another color, never an icon. AllocateTab is defined inside App,
\* so every render of App (every snapshot) mounts it anew and closes the
\* form: the category saved is the one loaded when the form was opened.
\* updateDoc rejects a field that is undefined and fails on a document that
\* is not there (the error is logged, the document is left as it is), else
\* it overwrites the fields given and keeps the others.
saveEdit(id, edit) ==
    /\ id \in Ids(categories)
    /\ trim(edit.name) # << >> /\ ~IsNaN(edit.baseLimit)
    /\ Has(edit, "color") \/ Has(DocOf(categories, id), "color")
    /\ Has(DocOf(categories, id), "icon")
    /\ id \in Ids(storeCats)
    /\ WriteCategories(WithCat(storeCats,
          Merge(DocOf(storeCats, id),
                [ name |-> trim(edit.name),
                  baseLimit |-> edit.baseLimit,
                  baseFrequency |-> edit.baseFrequency,
                  color |-> editColor(DocOf(categories, id), edit),
                  icon |-> DocOf(categories, id).icon ])))

handleDeleteCategory(id) ==
    /\ id \in Ids(storeCats)
    /\ WriteCategories(Without(storeCats, id))

\* The handler checks nothing: the categoryId is stored as given, also one
\* of no category loaded (the form keeps the id it was opened with when the
\* category is deleted meanwhile).
handleAddExpense(expData) ==
    /\ txIdsGiven < MaxTx
    /\ WriteExpenses(WithTx(storeExps,
          [ id |-> FreshTxId,
            amount |-> expData.amount,
            categoryId |-> expData.categoryId,
            source |-> SourceOr(expData.source, Unknown),
            timestamp |-> now,
            type |-> "expense" ]))

handleAddBudgetEntry(budData) ==
    /\ txIdsGiven < MaxTx
    /\ WriteExpenses(WithTx(storeExps,
          [ id |-> FreshTxId,
            amount |-> budData.amount,
            categoryId |-> "income",
            source |-> SourceOr(budData.source, UncategorizedIncome),
            timestamp |-> now,
            type |-> "budget" ]))

\* A faulty handleUpdateSettings: setDoc without { merge: true }.
handleUpdateSettings_Overwrite(updates) ==
    /\ Written("settings")
    /\ storeSettings' = updates
    /\ UNCHANGED << storeCats, storeExps, idsGiven >>

\* setDoc(settingsRef, updates, { merge: true })
handleUpdateSettings(updates) ==
    /\ Written("settings")
    /\ storeSettings' = Merge(storeSettings, updates)
    /\ UNCHANGED << storeCats, storeExps, idsGiven >>

\* TabButton's setActiveTab(name): App renders again, its memos are kept.
setActiveTab(name) ==
    /\ name # activeTab
    /\ activeTab' = name
    /\ Rendered(RenderChart(name, expenses, settings, now))
    /\ UNCHANGED << storeCats, storeExps, storeSettings, idsGiven, categories, expenses,
                    settings, cycleExpenses, cycleBudgets, currentCycleStart,
                    summary, now, undelivered >>

\* Time passes: nothing is rendered.
Tick ==
    /\ now < AppStart + MaxTicks
    /\ now' = now + 1
    /\ UNCHANGED << storeCats, storeExps, storeSettings, idsGiven, categories, expenses,
                    settings, activeTab, cycleExpenses, cycleBudgets,
                    currentCycleStart, summary, cycleData, cycleWindows,
                    undelivered >>

-----------------------------------------------------------------------------
(* Writes of other devices *)

RemoteAddTx(type, timestamp) ==
    /\ txIdsGiven < MaxTx
    /\ WriteExpenses(WithTx(storeExps,
          [ id |-> FreshTxId,
            amount |-> Scale * FreshTxId,
            categoryId |-> IF type = "expense" THEN CatIds[1] ELSE "income",
            source |-> Cash,
            timestamp |-> timestamp,
            type |-> type ]))

\* A transaction document with the fields of data, the others as the app
\* writes them.
RemoteTx(data) ==
    /\ txIdsGiven < MaxTx
    /\ WriteExpenses(WithTx(storeExps,
          Merge([ id |-> FreshTxId,
                  categoryId |-> IF data.type = "expense" THEN CatIds[1]
                                 ELSE "income",
                  source |-> Cash,
                  timestamp |-> now ], data)))

\* A category document written whole: { id: doc.id, ...doc.data() }.
RemoteCategory(id, data) ==
    /\ WithCat(storeCats, Merge([id |-> id], data)) # storeCats
    /\ WriteCategories(WithCat(storeCats, Merge([id |-> id], data)))

RemoteSettings(cycleMonths) ==
    /\ Merge(storeSettings, [cycleMonths |-> cycleMonths]) # storeSettings
    /\ WriteSettings(Merge(storeSettings, [cycleMonths |-> cycleMonths]))

-----------------------------------------------------------------------------
(* Specifications *)

\* The state after App has mounted at time t with an empty store.
Mounted(t) ==
    LET s == [currencyCode |-> DEFAULT_CURRENCY_CODE, cycleMonths |-> 1]
        memo == CycleMemo(<<>>, s, t)
    IN  /\ storeCats = <<>>
        /\ storeExps = <<>>
        /\ storeSettings = <<>>
        /\ catIdsGiven = {}
        /\ txIdsGiven = 0
        /\ categories = <<>>
        /\ expenses = <<>>
        /\ settings = s
        /\ activeTab = "overview"
        /\ cycleExpenses = memo.cycleExpenses
        /\ cycleBudgets = memo.cycleBudgets
        /\ currentCycleStart = memo.currentCycleStart
        /\ summary = Summary(<<>>, memo.cycleExpenses, memo.cycleBudgets, s)
        /\ cycleData = Pushed(RenderChart("overview", <<>>, s, t))
        /\ cycleWindows = Windows(RenderChart("overview", <<>>, s, t))
        /\ now = t
        /\ undelivered = {}

Init == Mounted(AppStart)

Next ==
    \/ \E id \in 1..MaxTx : handleDeleteTransaction(id)
    \/ \E catData \in CategoryInputs : handleAddCategory(catData)
    \/ \E i \in 1..Len(CatIds), edit \in CategoryInputs : saveEdit(CatIds[i], edit)
    \/ \E i \in 1..Len(CatIds) : handleDeleteCategory(CatIds[i])
    \/ \E i \in 1..Len(CatIds), e \in ExpenseInputs :
          handleAddExpense([ amount |-> e.amount, source |-> e.source,
                             categoryId |-> CatIds[i] ])
    \/ \E budData \in IncomeInputs : handleAddBudgetEntry(budData)
    \/ \E updates \in SettingsInputs : handleUpdateSettings(updates)
    \/ Tick
    \/ ExpensesSnapshot
    \/ CategoriesSnapshot
    \/ SettingsSnapshot

Spec == Init /\ [][Next]_vars

\* The app opened at any tick of ViewDays days, fed by other devices.
ViewNows == ViewStart .. (ViewStart + ViewDays * TicksPerDay - 1)

InitView == \E t \in ViewNows : Mounted(t)

NextView ==
    \/ \E type \in {"expense", "budget"}, timestamp \in ViewTxTimes(now) :
          RemoteAddTx(type, timestamp)
    \/ \E id \in 1..MaxTx : handleDeleteTransaction(id)
    \/ \E cycleMonths \in ViewCycles : RemoteSettings(cycleMonths)
    \/ \E name \in ViewTabs : setActiveTab(name)
    \/ ExpensesSnapshot
    \/ SettingsSnapshot

SpecView == InitView /\ [][NextView]_vars

\* The app used through its forms, with all they accept.
NextForms ==
    \/ \E id \in 1..MaxTx : handleDeleteTransaction(id)
    \/ \E catData \in FormCategoryInputs : handleAddCategory(catData)
    \/ \E i \in 1..Len(CatIds), edit \in FormEditInputs :
          saveEdit(CatIds[i], edit)
    \/ \E i \in 1..Len(CatIds) : handleDeleteCategory(CatIds[i])
    \/ \E i \in 1..Len(CatIds), amount \in FormExpenseAmounts :
          handleAddExpense([ amount |-> amount, source |-> << >>,
                             categoryId |-> CatIds[i] ])
    \/ \E amount \in FormIncomeAmounts :
          handleAddBudgetEntry([amount |-> amount, source |-> Salary])
    \/ \E updates \in FormSettingsInputs : handleUpdateSettings(updates)
    \/ ExpensesSnapshot
    \/ CategoriesSnapshot
    \/ SettingsSnapshot

SpecForms == Init /\ [][NextForms]_vars

\* The app fed category and settings documents of any content.
NextBudget ==
    \/ \E i \in 1..Len(CatIds) : \E data \in RemoteDocsOf(i) :
          RemoteCategory(CatIds[i], data)
    \/ \E i \in 1..Len(CatIds) : handleDeleteCategory(CatIds[i])
    \/ \E cycleMonths \in AllCycles : RemoteSettings(cycleMonths)
    \/ Tick
    \/ CategoriesSnapshot
    \/ SettingsSnapshot

SpecBudget == Init /\ [][NextBudget]_vars

\* The app with its settings updated field by field.
NextSettings ==
    \/ \E updates \in PartialSettingsInputs : handleUpdateSettings(updates)
    \/ \E catData \in CategoryInputs : handleAddCategory(catData)
    \/ \E i \in 1..Len(CatIds) : handleDeleteCategory(CatIds[i])
    \/ \E budData \in IncomeInputs : handleAddBudgetEntry(budData)
    \/ \E id \in 1..MaxTx : handleDeleteTransaction(id)
    \/ ExpensesSnapshot
    \/ CategoriesSnapshot
    \/ SettingsSnapshot

SpecSettings == Init /\ [][NextSettings]_vars

\* The app fed the documents of older versions and malformed ones.
NextLegacy ==
    \/ \E i \in 1..Len(CatIds) : \E data \in LegacyDocsOf(i) :
          RemoteCategory(CatIds[i], data)
    \/ \E i \in 1..Len(CatIds), edit \in LegacyEditInputs :
          saveEdit(CatIds[i], edit)
    \/ \E i \in 1..Len(CatIds) : handleDeleteCategory(CatIds[i])
    \/ \E data \in MalformedTxDocs : RemoteTx(data)
    \/ \E id \in 1..MaxTx : handleDeleteTransaction(id)
    \/ ExpensesSnapshot
    \/ CategoriesSnapshot

SpecLegacy == Init /\ [][NextLegacy]_vars

\* The app sharing its store with a client that names category documents
\* itself, and sources entered that are names of properties.
NextNamed ==
    \/ \E id \in {CatIds[1], NamedCatIds[1]}, data \in NamedCategoryDocs :
          RemoteCategory(id, data)
    \/ \E id \in {CatIds[1], NamedCatIds[1]}, e \in NamedExpenseInputs :
          handleAddExpense([ amount |-> e.amount, source |-> e.source,
                             categoryId |-> id ])
    \/ \E id \in 1..MaxTx : handleDeleteTransaction(id)
    \/ ExpensesSnapshot
    \/ CategoriesSnapshot

SpecNamed == Init /\ [][NextNamed]_vars

\* The app opened at any tick of DateDays days: expenses arrive as they are
\* made, the cycle length is set by other devices, the tabs are visited.
DateNows == DatesStart .. (DatesStart + DateDays * TicksPerDay - 1)

InitDates == \E t \in DateNows : Mounted(t)

NextDates ==
    \/ RemoteAddTx("expense", now)
    \/ \E cycleMonths \in AllCycles : RemoteSettings(cycleMonths)
    \/ \E name \in ViewTabs : setActiveTab(name)
    \/ ExpensesSnapshot
    \/ SettingsSnapshot

SpecDates == InitDates /\ [][NextDates]_vars

-----------------------------------------------------------------------------
(* What the specification says of the summary, stated over the state *)

\* The sum of f over the finite set S of its arguments.
RECURSIVE SumOver(_, _)
SumOver(f, S) ==
    IF S = {} THEN 0
    ELSE LET x == CHOOSE x \in S : TRUE
         IN  f[x] + SumOver(f, S \ {x})

\* The transactions of the given type timestamped at or after currentCycleStart.
InCurrentCycle(type) ==
    { i \in 1..Len(expenses) :
        expenses[i].type = type /\ expenses[i].timestamp >= currentCycleStart }

\* The sum of amount over them.
CycleTotal(type) ==
    SumOver([i \in InCurrentCycle(type) |-> expenses[i].amount],
            InCurrentCycle(type))

\* The spec's cycleAmount: the limit per cycle, in units of 1/Scale.
cycleAmount(baseLimit, baseFrequency, cycleMonths) ==
    IF baseLimit <= 0 THEN 0
    ELSE IF baseFrequency = "daily"
         THEN (baseLimit * cycleMonths * 487) \div 16
         ELSE IF baseFrequency = "bimonthly"
              THEN (baseLimit * cycleMonths) \div 2
              ELSE baseLimit * cycleMonths

\* The sum of cycleAmount over all categories, at settings.cycleMonths.
LimitOfAll ==
    SumOver([i \in 1..Len(categories) |->
                cycleAmount(categories[i].baseLimit,
                            categories[i].baseFrequency, settings.cycleMonths)],
            1..Len(categories))

\* The expense transactions, whatever else the log holds.
ExpensesOnly == SelectSeq(expenses, LAMBDA e : e.type # "budget")

\* C1: remaining equals totalBudgetLimit minus totalExpenses, the limits
\* being those of the categories and the expenses those of the current
\* cycle; and a step that changes income transactions alone (categories,
\* settings, the expense transactions and the cycle's start being the same)
\* leaves remaining as it was.
C1_RemainingIgnoresIncome ==
    /\ [](/\ summary.remaining = summary.totalBudgetLimit - summary.totalExpenses
          /\ summary.remaining = LimitOfAll - CycleTotal("expense"))
    /\ [][ ( /\ categories' = categories
             /\ settings' = settings
             /\ ExpensesOnly' = ExpensesOnly
             /\ currentCycleStart' = currentCycleStart )
           => summary.remaining' = summary.remaining ]_vars

\* C1 witness: categories with a limit, an expense and an income of the
\* current cycle, and remaining below the limit by the expense alone.
C1_Witness ==
    /\ summary.totalBudgetLimit > 0
    /\ InCurrentCycle("expense") # {}
    /\ InCurrentCycle("budget") # {}
    /\ summary.totalActualBudget > 0
    /\ summary.remaining = summary.totalBudgetLimit - CycleTotal("expense")

\* C2: totalExpenses is the sum of amount over exactly the expense
\* transactions timestamped at or after currentCycleStart, totalIncome the
\* same over the budget transactions: none before the start is counted,
\* and none after it is left out, however late.
C2_CurrentCycleTotals ==
    /\ summary.totalExpenses = CycleTotal("expense")
    /\ summary.totalActualBudget = CycleTotal("budget")

\* C2 witness: of two expenses, the one before the start is not counted and
\* the one timestamped in 2030 is.
C2_Witness ==
    \E i, j \in 1..Len(expenses) :
        /\ expenses[i].type = "expense"
        /\ expenses[i].timestamp < currentCycleStart
        /\ expenses[j].type = "expense"
        /\ expenses[j].timestamp = NewDate(2030, 0, 1)
        /\ summary.totalExpenses = expenses[j].amount

\* C3: totalBudgetLimit is the sum of cycleAmount over all categories,
\* those dropped from the rows included.
C3_TotalBudgetLimit == summary.totalBudgetLimit = LimitOfAll

\* C3 witness: two categories over a two-month cycle, one of them dropped
\* from the rows, the other with a daily limit.
C3_Witness ==
    /\ Len(categories) = 2
    /\ Len(summary.chartData) = 1
    /\ settings.cycleMonths = 2
    /\ \E i \in 1..2 : /\ categories[i].baseFrequency = "daily"
                       /\ categories[i].baseLimit > 0
    /\ summary.totalBudgetLimit > 0

\* summarize called at moment t with the categories, transactions and
\* settings of the state.
SummarizeAt(t) ==
    LET memo == CycleMemo(expenses, settings, t)
    IN  Summary(categories, memo.cycleExpenses, memo.cycleBudgets, settings)

\* C4 as stated: with the same categories, transactions and settings,
\* summarize yields the same output at whatever two moments it is called.
C4_SameAtAnyMoment ==
    LET out == [t \in ViewNows |-> SummarizeAt(t)]
    IN  \A t1, t2 \in ViewNows : out[t1] = out[t2]

\* C4, amended: with the same categories, transactions and settings,
\* summarize yields the same output at any two moments of the same
\* calendar month (the clock it reads decides the cycle's start).
C4_SameWithinMonth ==
    LET out == [t \in ViewNows |-> SummarizeAt(t)]
    IN  \A t1, t2 \in ViewNows :
            MonthIndex(t1) = MonthIndex(t2) => out[t1] = out[t2]

\* C4 witness: transactions for which two moments of one month on different
\* days give the same expenses, not zero, and a moment of the next month
\* gives other ones.
C4_Witness ==
    \E t1, t2, t3 \in ViewNows :
        /\ getDate(t1) # getDate(t2)
        /\ MonthIndex(t1) = MonthIndex(t2)
        /\ MonthIndex(t3) # MonthIndex(t1)
        /\ SummarizeAt(t1).totalExpenses > 0
        /\ SummarizeAt(t1) = SummarizeAt(t2)
        /\ SummarizeAt(t3).totalExpenses # SummarizeAt(t1).totalExpenses
        /\ summary = SummarizeAt(now)

-----------------------------------------------------------------------------
(* What the specification says of the trend, stated over the state *)

\* t shifted back by a number of calendar months.
ShiftedBack(t, months) == setMonth(t, getMonth(t) - months)

\* Midnight of the 1st of t's month, shifted back by a number of months.
FirstOfMonthBack(t, months) ==
    NewDate(getFullYear(t), getMonth(t) - months, 1)

\* The expense transactions timestamped from startDate to endDate, both
\* included.
ExpensesWithin(startDate, endDate) ==
    { j \in 1..Len(expenses) :
        /\ expenses[j].type = "expense"
        /\ startDate <= expenses[j].timestamp
        /\ expenses[j].timestamp <= endDate }

\* The chart is shown for a non-empty log and a positive cycle length.
TrendShown ==
    /\ activeTab = "analysis"
    /\ expenses # <<>>
    /\ settings.cycleMonths >= 1

\* C5 as stated: the entry of window i totals the expenses timestamped
\* from its startDate to its endDate, both included, endDate being now
\* shifted back by i * cycleMonths months: for i = 0, now itself.
C5_TrendTotals ==
    TrendShown =>
        \A i \in 0..(numCycles - 1) :
            LET startDate ==
                    FirstOfMonthBack(now, (i + 1) * settings.cycleMonths - 1)
                endDate == ShiftedBack(now, i * settings.cycleMonths)
                within == ExpensesWithin(startDate, endDate)
            IN  cycleData[numCycles - i].Expenses =
                    SumOver([j \in within |-> expenses[j].amount], within)

\* C6: the month spans of consecutive windows leave no gap: the first
\* month of window i is the month after the last month of window i+1, or
\* an earlier one.
C6_NoGapBetweenWindows ==
    (activeTab = "analysis" /\ expenses # <<>>
        /\ settings.cycleMonths \in CycleOptions) =>
        \A k \in 1..(numCycles - 1) :
            MonthIndex(cycleWindows[k + 1].startDate)
                <= MonthIndex(cycleWindows[k].endDate) + 1

\* C6 witness: on 2024-03-31 with one-month cycles, the window before the
\* current one ends in March as the current one starts (an earlier month
\* than the month after), and the one before that ends the month before
\* the next starts.
C6_Witness ==
    /\ now = NewDate(2024, 2, 31) + 1
    /\ storeSettings # <<>>
    /\ settings.cycleMonths = 1
    /\ Len(cycleWindows) = numCycles
    /\ MonthIndex(cycleWindows[5].startDate) = MonthIndex(cycleWindows[4].endDate)
    /\ MonthIndex(cycleWindows[4].startDate)
           = MonthIndex(cycleWindows[3].endDate) + 1

\* C7: for a non-empty log and cycleMonths >= 1 the series has exactly 5
\* entries, oldest window first; the last is labelled "Current" and is the
\* only one with isCurrent true.
C7_FiveOldestFirst ==
    TrendShown =>
        /\ Len(cycleData) = 5
        /\ \A k \in 1..4 :
              cycleWindows[k].startDate < cycleWindows[k + 1].startDate
        /\ cycleData[5].name = "Current"
        /\ \A k \in 1..5 : cycleData[k].isCurrent <=> (k = 5)

\* C7 witness: the chart of a log with an expense of the current window,
\* over two-month cycles.
C7_Witness ==
    /\ TrendShown
    /\ settings.cycleMonths = 2
    /\ Len(cycleData) = 5
    /\ cycleData[5].isCurrent
    /\ cycleData[5].Expenses > 0
    /\ cycleData[1].name # "Current"

\* C8 as stated: the series is empty whenever the log is empty, and
\* whenever cycleMonths <= 0, whatever the log holds.
C8_EmptyTrend ==
    (activeTab = "analysis"
        /\ (expenses = <<>> \/ settings.cycleMonths <= 0)) =>
        cycleData = <<>>

\* C9: for cycleMonths >= 1, currentCycleStart is midnight of the 1st of a
\* month, and that month is (cycleMonths - 1) calendar months before the
\* month of now.
C9_CycleStart ==
    settings.cycleMonths >= 1 =>
        /\ getDate(currentCycleStart) = 1
        /\ TimeInDay(currentCycleStart) = 0
        /\ MonthIndex(currentCycleStart)
              = MonthIndex(now) - (settings.cycleMonths - 1)

\* C9 witness: after midnight on 2024-01-31 with twelve-month cycles, the
\* cycle starts on 2023-02-01, across the year boundary.
C9_Witness ==
    /\ now = NewDate(2024, 0, 31) + 1
    /\ storeSettings # <<>>
    /\ settings.cycleMonths = 12
    /\ currentCycleStart = NewDate(2023, 1, 1)

\* C10: isOverActualIncome is true iff totalExpenses > totalIncome and
\* totalIncome > 0, the totals being those of the current cycle: with no
\* income recorded it is false for every amount of expenses.
C10_OverActualIncome ==
    isOverActualBudget(summary) <=>
        ( /\ CycleTotal("expense") > CycleTotal("budget")
          /\ CycleTotal("budget") > 0 )

\* C10 witness: expenses of the current cycle, no income, and the flag
\* false.
C10_Witness ==
    /\ CycleTotal("expense") > 0
    /\ InCurrentCycle("budget") = {}
    /\ ~isOverActualBudget(summary)

-----------------------------------------------------------------------------
(* What the specification says of the rows, stated over the state *)

\* The current-cycle expense transactions of the category id.
SpentOn(id) ==
    { j \in InCurrentCycle("expense") : expenses[j].categoryId = id }

\* The current-cycle spend of the category id.
CategorySpend(id) ==
    SumOver([j \in SpentOn(id) |-> expenses[j].amount], SpentOn(id))

\* The cycle limit of a category.
CycleLimit(cat) ==
    cycleAmount(cat.baseLimit, cat.baseFrequency, settings.cycleMonths)

\* The ids of the rows.
RowIds == {summary.chartData[k].id : k \in 1..Len(summary.chartData)}

\* C11: the rows hold a row for a category iff its current-cycle spend is
\* > 0 or its cycle limit is > 0; a category with neither has no row and
\* is still among the categories.
C11_RowsKept ==
    /\ \A i \in 1..Len(categories) :
          categories[i].id \in RowIds <=>
              ( CategorySpend(categories[i].id) > 0
                \/ CycleLimit(categories[i]) > 0 )
    /\ RowIds \subseteq Ids(categories)

\* The category a row is of.
CategoryOfRow(row) ==
    categories[CHOOSE i \in 1..Len(categories) : categories[i].id = row.id]

\* Whether the fraction p is the number n.
PercentageIs(p, n) == p.num = n * p.den

\* The scenario: one monthly category with baseLimit 200, cycleMonths = 1,
\* and two current expenses of 50 and 30 in it.
GroceriesScenario ==
    /\ Len(categories) = 1
    /\ categories[1].baseLimit = 200 * Scale
    /\ categories[1].baseFrequency = "monthly"
    /\ settings.cycleMonths = 1
    /\ Len(expenses) = 2
    /\ {expenses[1].amount, expenses[2].amount} = {50 * Scale, 30 * Scale}
    /\ SpentOn(categories[1].id) = {1, 2}

\* C12: each row's percentage is spent / cycleLimit * 100 when cycleLimit
\* > 0 and 0 otherwise; in the scenario totalBudgetLimit = 200,
\* totalExpenses = 80, remaining = 120 and the row's percentage = 40.
C12_Percentage ==
    /\ \A k \in 1..Len(summary.chartData) :
          LET row   == summary.chartData[k]
              spent == CategorySpend(row.id)
              limit == CycleLimit(CategoryOfRow(row))
              p     == Percentage(row)
          IN  /\ p.den > 0
              /\ ~IsNaN(p.num)
              /\ IF limit > 0 THEN p.num * limit = spent * 100 * p.den
                              ELSE p.num = 0
    /\ GroceriesScenario =>
          /\ summary.totalBudgetLimit = 200 * Scale
          /\ summary.totalExpenses = 80 * Scale
          /\ summary.remaining = 120 * Scale
          /\ Len(summary.chartData) = 1
          /\ PercentageIs(Percentage(summary.chartData[1]), 40)

\* The current-cycle expenses of a source.
FromSource(source) ==
    { i \in InCurrentCycle("expense") : expenses[i].source = source }

\* C13: expenseBySource has one entry for each source of a current-cycle
\* expense, its amount the sum of those expenses' amounts (income never
\* contributes), and the entries are in non-increasing order of amount.
C13_ExpenseBySource ==
    \A es \in ExpenseSources(cycleExpenses) :
        /\ { es[k].source : k \in 1..Len(es) }
              = { expenses[i].source : i \in InCurrentCycle("expense") }
        /\ \A k, l \in 1..Len(es) : es[k].source = es[l].source => k = l
        /\ \A k \in 1..Len(es) :
              es[k].amount = Num(SumOver([i \in FromSource(es[k].source) |->
                                            expenses[i].amount],
                                         FromSource(es[k].source)))
        /\ \A k \in 1..(Len(es) - 1) :
              JSLe(ToNumber(es[k + 1].amount), ToNumber(es[k].amount))

-----------------------------------------------------------------------------
(* What the specification says of cycleAmount *)

\* baseLimit of a stored document as calculateCycleBudget parses it.
RawLimit(doc) == parseFloat(doc, "baseLimit")

\* baseFrequency of a stored document, "undefined" when it has none.
RawFrequency(doc) ==
    IF Has(doc, "baseFrequency") THEN doc.baseFrequency ELSE "undefined"

\* The stored documents whose baseLimit is a positive number.
PositiveDocs ==
    { i \in 1..Len(storeCats) : JSGt(RawLimit(storeCats[i]), 0) }

\* C14: for a positive baseLimit and cycleMonths in {1,2,3,6,12}, frequency
\* 'monthly' gives baseLimit * cycleMonths, and an unknown or unset
\* frequency gives what 'monthly' gives.
C14_MonthlyAndDefault ==
    settings.cycleMonths \in CycleOptions =>
        /\ \A i \in PositiveDocs :
              LET b == RawLimit(storeCats[i])
              IN  /\ calculateCycleBudget(b, "monthly", settings.cycleMonths)
                        = b * settings.cycleMonths
                  /\ RawFrequency(storeCats[i]) \notin FREQUENCIES =>
                        calculateCycleBudget(b, RawFrequency(storeCats[i]),
                                             settings.cycleMonths)
                            = b * settings.cycleMonths
        /\ \A i \in 1..Len(categories) :
              ( /\ categories[i].baseLimit > 0
                /\ categories[i].baseFrequency \notin {"bimonthly", "daily"} )
              => AllocateCycleBudget(categories[i], settings)
                     = categories[i].baseLimit * settings.cycleMonths

\* C14 witness: a category of frequency 'weekly' and limit 100 shown for a
\* cycle of 2 months at 200.
C14_Witness ==
    /\ settings.cycleMonths = 2
    /\ Len(categories) = 1
    /\ categories[1].baseFrequency = "weekly"
    /\ categories[1].baseLimit = 100 * Scale
    /\ summary.totalBudgetLimit = 200 * Scale
    /\ AllocateCycleBudget(categories[1], settings) = 200 * Scale

\* The stored documents whose baseLimit is 0, negative, missing or not a
\* number.
UnsetDocs == (1..Len(storeCats)) \ PositiveDocs

\* C15: cycleAmount is 0 whenever baseLimit is 0, negative, missing or not
\* a number, whatever the frequency and cycleMonths.
C15_ZeroIfUnset ==
    /\ \A i \in UnsetDocs :
          \A f \in RemoteFrequencies \cup {"undefined"}, c \in AllCycles :
              calculateCycleBudget(RawLimit(storeCats[i]), f, c) = 0
    /\ \A i \in 1..Len(categories) :
          ~JSGt(categories[i].baseLimit, 0)
              => AllocateCycleBudget(categories[i], settings) = 0
    /\ (PositiveDocs = {} /\ "categories" \notin undelivered)
          => summary.totalBudgetLimit = 0

\* C15 witness: the one category has baseLimit -5 and its cycle limit is 0.
C15_Witness ==
    /\ "categories" \notin undelivered
    /\ Len(storeCats) = 1
    /\ RawLimit(storeCats[1]) = -5 * Scale
    /\ categories[1].baseLimit = -5 * Scale
    /\ settings.cycleMonths = 2
    /\ AllocateCycleBudget(categories[1], settings) = 0
    /\ summary.totalBudgetLimit = 0

\* C16: cycleAmount is never negative, whatever baseLimit, the frequency
\* and the integer cycleMonths (0 and negative ones too); so
\* totalBudgetLimit and the cycle limit of every row are >= 0.
C16_NeverNegative ==
    /\ \A i \in 1..Len(storeCats) :
          calculateCycleBudget(RawLimit(storeCats[i]),
                               RawFrequency(storeCats[i]),
                               settings.cycleMonths) >= 0
    /\ summary.totalBudgetLimit >= 0
    /\ \A k \in 1..Len(summary.chartData) :
          summary.chartData[k].budgetLimit >= 0

\* The categories of a frequency with a positive baseLimit.
PositiveOf(frequency) ==
    { i \in 1..Len(categories) :
        /\ categories[i].baseFrequency = frequency
        /\ JSGt(categories[i].baseLimit, 0) }

\* C17: for frequency 'bimonthly' cycleAmount is baseLimit * cycleMonths / 2
\* exactly, not rounded to a whole number: half of baseLimit for
\* cycleMonths = 1, and 150 for baseLimit 150 and cycleMonths = 2.
C17_Bimonthly ==
    settings.cycleMonths \in CycleOptions =>
        /\ \A i \in PositiveDocs :
              2 * calculateCycleBudget(RawLimit(storeCats[i]), "bimonthly",
                                       settings.cycleMonths)
                  = RawLimit(storeCats[i]) * settings.cycleMonths
        /\ \A i \in PositiveOf("bimonthly") :
              /\ 2 * AllocateCycleBudget(categories[i], settings)
                     = categories[i].baseLimit * settings.cycleMonths
              /\ settings.cycleMonths = 1 =>
                     2 * AllocateCycleBudget(categories[i], settings)
                         = categories[i].baseLimit
              /\ ( categories[i].baseLimit = 150 * Scale
                   /\ settings.cycleMonths = 2 ) =>
                     AllocateCycleBudget(categories[i], settings) = 150 * Scale

\* C17 witness: a bi-monthly limit of 5 gives 2.5 for a cycle of 1 month.
C17_Witness ==
    /\ settings.cycleMonths = 1
    /\ Len(categories) = 1
    /\ PositiveOf("bimonthly") = {1}
    /\ categories[1].baseLimit = 5 * Scale
    /\ 2 * AllocateCycleBudget(categories[1], settings) = 5 * Scale
    /\ summary.totalBudgetLimit % Scale # 0

\* The scenario of the specification: 150 bi-monthly, a cycle of 2 months.
BimonthlyScenario ==
    /\ settings.cycleMonths = 2
    /\ Len(categories) = 1
    /\ PositiveOf("bimonthly") = {1}
    /\ categories[1].baseLimit = 150 * Scale
    /\ summary.totalBudgetLimit = 150 * Scale

\* cycleAmount for 'daily' is baseLimit * cycleMonths * 30.4375, whatever
\* the months of the cycle are.
DailyAmount ==
    /\ \A i \in PositiveDocs :
          16 * calculateCycleBudget(RawLimit(storeCats[i]), "daily",
                                    settings.cycleMonths)
              = RawLimit(storeCats[i]) * settings.cycleMonths * 487
    /\ \A i \in PositiveOf("daily") :
          16 * AllocateCycleBudget(categories[i], settings)
              = categories[i].baseLimit * settings.cycleMonths * 487

\* A category of 100 a day shown for a cycle of 2 months.
HundredADay(i) ==
    /\ i \in PositiveOf("daily")
    /\ categories[i].baseLimit = 100 * Scale
    /\ settings.cycleMonths = 2

\* C18 as stated: cycleAmount for 'daily' is baseLimit * cycleMonths *
\* 30.4375, and cycleAmount(100, 'daily', 2) = 6088.75 (97420 sixteenths).
C18_DailyAsStated ==
    /\ DailyAmount
    /\ \A i \in 1..Len(categories) :
          HundredADay(i) => AllocateCycleBudget(categories[i], settings) = 97420

\* C18: cycleAmount for 'daily' is baseLimit * cycleMonths * 30.4375, the
\* months of the cycle playing no part, and cycleAmount(100, 'daily', 2) =
\* 6087.5 (97400 sixteenths).
C18_Daily ==
    /\ DailyAmount
    /\ \A i \in 1..Len(categories) :
          HundredADay(i) => AllocateCycleBudget(categories[i], settings) = 97400

\* C18 witness: 100 a day over a cycle of 2 months, in February, is 6087.5.
C18_Witness ==
    /\ Len(categories) = 1
    /\ HundredADay(1)
    /\ getMonth(now) = 1
    /\ summary.totalBudgetLimit = 97400

-----------------------------------------------------------------------------
(* What the specification says of the stored data *)

\* C19: after any adds of expenses and income and any deletions, every
\* stored transaction has amount > 0: none is stored with an amount of 0,
\* below 0 or not a number.
C19_AmountPositive ==
    /\ \A i \in 1..Len(storeExps) : JSGt(storeExps[i].amount, 0)
    /\ \A i \in 1..Len(expenses) : JSGt(expenses[i].amount, 0)

\* C20: after any creations, edits and deletions of categories, every
\* category has baseLimit >= 0.
C20_BaseLimitNotNegative ==
    /\ \A i \in 1..Len(storeCats) : JSLe(0, storeCats[i].baseLimit)
    /\ \A i \in 1..Len(categories) : JSLe(0, categories[i].baseLimit)

-----------------------------------------------------------------------------
(* What the specification says of the settings *)

SettingsFields == {"cycleMonths", "currencyCode"}

\* What an update leaves of field f in the stored record: the value
\* supplied, or the one before.
StoredAfterUpdate(updates, f) ==
    IF f \in DOMAIN updates
    THEN Has(storeSettings', f) /\ storeSettings'[f] = updates[f]
    ELSE /\ Has(storeSettings', f) <=> Has(storeSettings, f)
         /\ Has(storeSettings, f) => storeSettings'[f] = storeSettings[f]

\* What the delivery of the record leaves of field f in the settings the
\* summary reads: the value stored, or the one before.
ReadAfterSnapshot(f) ==
    settings'[f] = IF Has(storeSettings, f) THEN storeSettings[f]
                   ELSE settings[f]

\* A field no record holds has its default, and the limits are those of
\* the cycle length in effect.
DefaultsInEffect ==
    /\ DOMAIN settings = SettingsFields
    /\ \A f \in SettingsFields \ DOMAIN storeSettings :
          settings[f] = [currencyCode |-> "USD", cycleMonths |-> 1][f]
    /\ "settings" \notin undelivered =>
          \A f \in DOMAIN storeSettings : settings[f] = storeSettings[f]
    /\ summary.totalBudgetLimit
          = SumOver([i \in 1..Len(categories) |->
                        cycleAmount(categories[i].baseLimit,
                                    categories[i].baseFrequency,
                                    settings.cycleMonths)],
                    1..Len(categories))

\* C21: a settings update overwrites the fields it supplies and no other,
\* in the stored record and, once the record is delivered, in the settings
\* the summary reads; a field no record holds has its default (currency
\* USD, cycleMonths 1).
C21_PartialUpdate ==
    /\ []DefaultsInEffect
    /\ [][\A updates \in PartialSettingsInputs :
            handleUpdateSettings(updates) =>
                \A f \in SettingsFields : StoredAfterUpdate(updates, f)]_vars
    /\ [][SettingsSnapshot =>
            \A f \in SettingsFields : ReadAfterSnapshot(f)]_vars

\* C21 witness: only the currency was ever supplied; cycleMonths is the
\* default and the limits are those of one month.
C21_Witness ==
    /\ undelivered = {}
    /\ DOMAIN storeSettings = {"currencyCode"}
    /\ settings = [currencyCode |-> "EUR", cycleMonths |-> 1]
    /\ Len(categories) = 2
    /\ summary.totalBudgetLimit > 0

-----------------------------------------------------------------------------
(* What the specification says of the life of a transaction *)

\* The transactions of docs that are in docs2 as well are the same there.
KeptAsTheyAre(docs, docs2) ==
    \A id \in Ids(docs) \cap Ids(docs2) : DocOf(docs2, id) = DocOf(docs, id)

\* C22: from its creation to its deletion a transaction keeps its amount,
\* type, categoryId, source and timestamp under every operation of the
\* app; a write to the categories or the settings neither alters nor
\* removes a transaction.
C22_TransactionsImmutable ==
    [][ /\ KeptAsTheyAre(storeExps, storeExps')
        /\ KeptAsTheyAre(expenses, expenses')
        /\ (storeCats' # storeCats \/ storeSettings' # storeSettings)
              => (storeExps' = storeExps /\ expenses' = expenses) ]_vars

\* C22 witness: an expense made in January is still as it was made, in
\* February, after its category was deleted and another transaction added.
C22_Witness ==
    /\ Len(expenses) = 2
    /\ expenses[1].type = "expense"
    /\ expenses[1].categoryId \notin Ids(categories)
    /\ expenses[1].timestamp = AppStart
    /\ expenses[2].timestamp = AppStart + 1
    /\ storeExps[1].timestamp = AppStart

-----------------------------------------------------------------------------
(* What the specification says of loading a category *)

\* C23: a category loads with baseFrequency 'monthly' when its record has
\* none; with baseLimit = budgetLimit when its record has no baseLimit but
\* the deprecated budgetLimit; with baseLimit 0 when it has neither.
C23_LoadedDefaults ==
    "categories" \notin undelivered =>
    /\ Ids(categories) = Ids(storeCats)
    /\ \A i \in 1..Len(storeCats) :
          LET doc == storeCats[i]
              cat == DocOf(categories, doc.id)
          IN  /\ ~Has(doc, "baseFrequency") => cat.baseFrequency = "monthly"
              /\ ( /\ ~Has(doc, "baseLimit")
                   /\ Has(doc, "budgetLimit")
                   /\ ~IsNaN(doc.budgetLimit) )
                    => cat.baseLimit = doc.budgetLimit
              /\ (~Has(doc, "baseLimit") /\ ~Has(doc, "budgetLimit"))
                    => cat.baseLimit = 0

\* C23 witness: a record with budgetLimit 50 and no other limit loads as a
\* monthly category of limit 50, beside one with neither limit.
C23_Witness ==
    /\ "categories" \notin undelivered
    /\ Len(storeCats) = 2
    /\ DOMAIN storeCats[1] = {"id", "name"}
    /\ DOMAIN storeCats[2] = {"id", "name", "budgetLimit", "color", "icon"}
    /\ DocOf(categories, storeCats[1].id).baseLimit = 0
    /\ DocOf(categories, storeCats[2].id).baseLimit = 50 * Scale
    /\ DocOf(categories, storeCats[2].id).baseFrequency = "monthly"
    /\ summary.totalBudgetLimit = 50 * Scale

-----------------------------------------------------------------------------
(* What the specification says of malformed input *)

\* A numeric field as the specification counts it: 0 when it is missing or
\* not a number.
Coerced(r, f) == IF Has(r, f) /\ ~IsNaN(r[f]) THEN r[f] ELSE 0

\* The sum of the coerced amounts of the current-cycle transactions of a
\* type.
CoercedTotal(type) ==
    SumOver([i \in InCurrentCycle(type) |-> Coerced(storeExps[i], "amount")],
            InCurrentCycle(type))

\* C24: summarize yields numbers only: a malformed or missing baseLimit or
\* amount counts as 0 in the totals, and with no categories and no
\* transactions all four totals are 0 and there are no rows.
C24_NeverNonNumeric ==
    "expenses" \notin undelivered =>
    /\ ~IsNaN(summary.totalBudgetLimit)
    /\ summary.totalExpenses = CoercedTotal("expense")
    /\ summary.totalActualBudget = CoercedTotal("budget")
    /\ summary.remaining
          = summary.totalBudgetLimit - CoercedTotal("expense")
    /\ (categories = <<>> /\ expenses = <<>>) =>
          /\ summary.totalBudgetLimit = 0
          /\ summary.totalActualBudget = 0
          /\ summary.totalExpenses = 0
          /\ summary.remaining = 0
          /\ summary.chartData = <<>>

-----------------------------------------------------------------------------
(* What the specification says of the trend windows together *)

\* The expenses timestamped from the oldest window's startDate to now.
ExpensesOfTrend == ExpensesWithin(cycleWindows[1].startDate, now)

\* The windows expense j falls in.
WindowsOf(j) ==
    { k \in 1..numCycles :
        /\ cycleWindows[k].startDate <= expenses[j].timestamp
        /\ expenses[j].timestamp <= cycleWindows[k].endDate }

\* C25: the 5 windows partition the period they span: each expense
\* timestamped from the oldest window's startDate to now is counted in
\* exactly one window, and the 5 totals sum to the total of those expenses.
C25_WindowsPartition ==
    (TrendShown /\ settings.cycleMonths \in CycleOptions) =>
        /\ \A j \in ExpensesOfTrend : Cardinality(WindowsOf(j)) = 1
        /\ SumOver([k \in 1..numCycles |-> cycleData[k].Expenses],
                   1..numCycles)
              = SumOver([j \in ExpensesOfTrend |-> expenses[j].amount],
                        ExpensesOfTrend)

-----------------------------------------------------------------------------
(* What the specification says of the rows and the totals together *)

\* C26: after any category and transaction operations, the deletion of a
\* category that still has expenses among them, the spent of the rows sums
\* to totalExpenses and to the sum of the values of expenseByCategory.
C26_RowsSumToTotal ==
    /\ SumOver([k \in 1..Len(summary.chartData) |->
                    Spent(summary.chartData[k])],
               1..Len(summary.chartData))
          = summary.totalExpenses
    /\ SumOver([id \in DOMAIN summary.expenseByCategory |->
                    ToNumber(summary.expenseByCategory[id])],
               DOMAIN summary.expenseByCategory)
          = summary.totalExpenses

-----------------------------------------------------------------------------
(* What the specification says of memoisation *)

\* C27: at every moment the memoised current-cycle window and summary are
\* what a full recomputation from the categories, transactions, settings
\* and the time of that moment gives, time passing over the end of a month
\* with no other change included.
C27_MemoIsRecomputation ==
    /\ currentCycleStart = startOfCycle(CycleMonthsOf(settings), now)
    /\ cycleExpenses = CycleMemo(expenses, settings, now).cycleExpenses
    /\ cycleBudgets = CycleMemo(expenses, settings, now).cycleBudgets
    /\ summary = SummarizeAt(now)

-----------------------------------------------------------------------------
(* What the specification says of the over-limit flag *)

\* C28: every row whose spent exceeds its cycleLimit is flagged over-limit
\* (the critical band, with the overspend spent - cycleLimit), a row with
\* cycleLimit 0 and spent > 0 included.
C28_OverLimitFlagged ==
    \A k \in 1..Len(summary.chartData) :
        LET row   == summary.chartData[k]
            spent == CategorySpend(row.id)
            limit == CycleLimit(CategoryOfRow(row))
        IN  spent > limit =>
                /\ barColor(row) = "bg-red-500"
                /\ OverspentShown(row)
                /\ OverspentBy(row) = spent - limit

-----------------------------------------------------------------------------
(* What the specification says of the deprecated field *)

\* C29: a record with a numeric baseLimit loads with that baseLimit,
\* whatever its budgetLimit holds; one saved with baseLimit 0 loads with
\* baseLimit 0 and cycle limit 0 though it has a positive budgetLimit.
C29_BaseLimitWins ==
    "categories" \notin undelivered =>
    \A i \in 1..Len(storeCats) :
        LET doc == storeCats[i]
            cat == DocOf(categories, doc.id)
        IN  (Has(doc, "baseLimit") /\ ~IsNaN(doc.baseLimit)) =>
                /\ cat.baseLimit = doc.baseLimit
                /\ doc.baseLimit = 0 =>
                      AllocateCycleBudget(cat, settings) = 0

====
